---- MODULE Spec2Model ----
(***************************************************************************)
(* Alert evaluation and escalation engine of the MOBY backend.             *)
(*                                                                         *)
(*   AlertEngine            src/alert_engine.py       (cooldown checks)    *)
(*   alert_worker,                                                         *)
(*   handle_alert           src/main.py               (5 s worker loop)    *)
(*   EnhancedAlertEngine    src/alert_engine/enhanced_policy.py            *)
(*   AlertEscalationManager src/alert_engine/escalation.py                 *)
(*                                                                         *)
(* Time is counted in seconds.  Code between two awaits runs without the   *)
(* event loop switching tasks, so every action below is one such stretch   *)
(* of code; the clock advances only while a coroutine is suspended.        *)
(***************************************************************************)
EXTENDS Integers, Sequences, FiniteSets, TLC

VARIABLES
    now,              \* the wall clock: datetime.now() / datetime.utcnow(), in seconds
    \* ---- AlertEngine and alert_worker ----
    alert_state,      \* AlertEngine.alert_state: alert key -> time of the last grant
    alert_history,    \* AlertEngine.alert_history
    worker_pc,        \* where alert_worker stands in its loop body
    handling,         \* the alert handle_alert is working on, or NoAlert
    last_call,        \* the most recent _can_send_alert call and what it returned
    grant_log,        \* every grant of _can_send_alert so far, in order
    \* ---- EnhancedAlertEngine ----
    policy_history,   \* EnhancedAlertEngine.alert_history
    task,             \* the evaluate_policies calls: one record per caller
    last_dedup,       \* the most recent _is_duplicate call and what it returned
    \* ---- AlertEscalationManager ----
    monitor,          \* where monitor_escalations stands, with its pending_alerts list
    notifications,    \* per stored alert: how often _notify_manager was sent for it and
                      \* its severity raised, and whether that was begun when the
                      \* alert was no longer pending
    \* ---- single calls of the synchronous methods ----
    unit              \* the most recent such call: method, arguments, outcome; in
                      \* the runs of ConnectionManager, that object and its callers

cooldownVars == <<alert_state, alert_history, worker_pc, handling, last_call, grant_log>>
policyVars == <<policy_history, task, last_dedup>>
escalationVars == <<monitor, notifications>>
vars == <<now, cooldownVars, policyVars, escalationVars, unit>>

\* ------------------------------------------------------------------------
\* Bounds of the model
\* ------------------------------------------------------------------------
MaxTime == 1801        \* the clock does not advance past this many seconds
MaxRecords == 2        \* records one telemetry query returns at most
MaxPolicyTime == 900   \* the same, for the runs of EnhancedAlertEngine
MaxHistory == 2        \* alerts EnhancedAlertEngine accepts in one run
MaxSkewHistory == 3    \* the same, in the runs with a clock that is set back
MaxSaves == 102        \* calls of _save_alert_history in a run of saves
MaxQueryTime == 601    \* the clock's limit in the runs that keep the queries' outcomes
MaxRequestTime == 3601 \* the clock's limit in the runs with history requests
MaxWindowTime == 1204  \* the clock's limit in the runs that evaluate at every reading

\* Amounts of time that may pass while alert_worker is suspended: 5 minutes, the
\* 10 minute cooldown to the second, and one second more.
CooldownDelays == {300, 600, 601}

None == -1             \* Python's None: dict.get() found nothing, or a null value
NoAlert == [key |-> "none"]
NoCall == [key |-> "none"]

\* ------------------------------------------------------------------------
\* AlertEngine (src/alert_engine.py)
\* ------------------------------------------------------------------------
TEMP_CRITICAL_THRESHOLD == 50
VIBRATION_DURATION_MINUTES == 5
FREQ_VIBRATION == 16
TEMP_COOLDOWN_MINUTES == 10
VIB_COOLDOWN_MINUTES == 30
HISTORY_LIMIT == 100

TempKey == "temp_critical_pressure"
VibKey == "vib_sustained_vibration"
AlertKeys == {TempKey, VibKey}

\* timedelta(minutes = m), in seconds
timedelta_minutes(m) == m * 60

\* _can_send_alert with ">=" in place of ">": a grant at exactly the cooldown.
_can_send_alert_inclusive(state, alert_key, cooldown_minutes, t) ==
    LET last_sent == state[alert_key] IN
    IF last_sent = None \/ t - last_sent >= timedelta_minutes(cooldown_minutes)
    THEN [ok |-> TRUE, state |-> [state EXCEPT ![alert_key] = t]]
    ELSE [ok |-> FALSE, state |-> state]

\* _can_send_alert that records the time of a denied call too, so that a denied
\* attempt starts the cooldown again.
_can_send_alert_refreshing(state, alert_key, cooldown_minutes, t) ==
    LET last_sent == state[alert_key] IN
    IF last_sent = None \/ t - last_sent > timedelta_minutes(cooldown_minutes)
    THEN [ok |-> TRUE, state |-> [state EXCEPT ![alert_key] = t]]
    ELSE [ok |-> FALSE, state |-> [state EXCEPT ![alert_key] = t]]

\* _can_send_alert that grants a key without a timestamp and does not record the
\* grant: the write of the read-check-write is lost.
_can_send_alert_unrecorded(state, alert_key, cooldown_minutes, t) ==
    LET last_sent == state[alert_key] IN
    IF last_sent = None
    THEN [ok |-> TRUE, state |-> state]
    ELSE IF t - last_sent > timedelta_minutes(cooldown_minutes)
         THEN [ok |-> TRUE, state |-> [state EXCEPT ![alert_key] = t]]
         ELSE [ok |-> FALSE, state |-> state]

\* AlertEngine._can_send_alert: the answer and alert_state after the call at time t.
_can_send_alert(state, alert_key, cooldown_minutes, t) ==
    LET last_sent == state[alert_key] IN
    IF last_sent = None
    THEN [ok |-> TRUE, state |-> [state EXCEPT ![alert_key] = t]]
    ELSE IF t - last_sent > timedelta_minutes(cooldown_minutes)
         THEN [ok |-> TRUE, state |-> [state EXCEPT ![alert_key] = t]]
         ELSE [ok |-> FALSE, state |-> state]

\* _save_alert_history dropping the entry just appended when the list is over its
\* limit (pop() in place of pop(0)).
_save_alert_history_newest(history, alert) ==
    LET appended == Append(history, alert) IN
    IF Len(appended) > HISTORY_LIMIT THEN SubSeq(appended, 1, Len(appended) - 1)
    ELSE appended

\* AlertEngine._save_alert_history
_save_alert_history(history, alert) ==
    LET appended == Append(history, alert) IN
    IF Len(appended) > HISTORY_LIMIT THEN Tail(appended) ELSE appended

\* What the code between a grant and the return may do: build and save the alert,
\* or raise, in building the dict, in _save_alert_history or in the log call; where
\* it raises makes no difference to what the except branch leaves behind.
Faults == {"none", "raised"}

\* The record of one _can_send_alert call.
CallRecord(alert_key, cooldown_minutes, state, c) ==
    [key |-> alert_key, at |-> now, prev |-> state[alert_key],
     cooldown |-> cooldown_minutes, result |-> c.ok]

\* The except branch of a check that undoes the grant when the alert could not be
\* built or saved.
check_failed_rollback(before, after) == before

\* The except branch of check_temperature_critical / check_vibration_sustained:
\* it logs and falls through to "return None"; alert_state keeps the grant.
check_failed(before, after) == after

\* The comparison of a reading with the threshold, the threshold included.
temp_over_inclusive(temp) == temp >= TEMP_CRITICAL_THRESHOLD

\* temp > threshold (alert_engine.py line 39)
temp_over(temp) == temp > TEMP_CRITICAL_THRESHOLD

\* expected_samples = duration * 60 * FREQ_VIBRATION * 0.8 (line 82)
expected_samples == (VIBRATION_DURATION_MINUTES * 60 * FREQ_VIBRATION * 8) \div 10

\* count >= expected_samples in place of line 83.
count_over_inclusive(count) == count >= expected_samples

\* count > expected_samples (line 83)
count_over(count) == count > expected_samples

\* The threshold test of the check for this metric.
over(metric, value) ==
    IF metric = "temperature" THEN temp_over(value) ELSE count_over(value)

\* The loop over the query's records, shared by both checks: over(metric, value)
\* is the check's threshold test.  The result is alert_state,
\* alert_history, the returned alert, and the _can_send_alert calls made.
RECURSIVE check_records(_, _, _, _, _, _, _, _)
check_records(records, metric, alert_key, cooldown_minutes, level, fault, st, hist) ==
    IF records = <<>>
    THEN [alert_state |-> st, alert_history |-> hist, ret |-> NoAlert,
          call |-> NoCall, granted |-> FALSE, failed |-> FALSE,
          escaped |-> FALSE]
    ELSE LET record == Head(records) IN
         IF over(metric, record.value)
         THEN LET c == _can_send_alert(st, alert_key, cooldown_minutes, now)
                  alert == [key |-> alert_key, timestamp |-> record.time,
                            level |-> level, value |-> record.value]
                  rest == check_records(Tail(records), metric, alert_key,
                                        cooldown_minutes, level, fault, c.state, hist)
              IN  IF c.ok
                  THEN IF fault # "none"
                       THEN [alert_state |-> check_failed(st, c.state),
                             alert_history |-> hist, ret |-> NoAlert,
                             call |-> CallRecord(alert_key, cooldown_minutes, st, c),
                             granted |-> TRUE, failed |-> TRUE,
                             escaped |-> FALSE]
                       ELSE [alert_state |-> c.state,
                             alert_history |-> _save_alert_history(hist, alert),
                             ret |-> alert,
                             call |-> CallRecord(alert_key, cooldown_minutes, st, c),
                             granted |-> TRUE, failed |-> FALSE,
                             escaped |-> FALSE]
                  ELSE IF rest.call = NoCall
                       THEN [rest EXCEPT
                               !.call = CallRecord(alert_key, cooldown_minutes, st, c)]
                       ELSE rest
         ELSE check_records(Tail(records), metric, alert_key, cooldown_minutes,
                            level, fault, st, hist)

\* The values a record of the temperature query may carry, and of the count query.
TempValues == {TEMP_CRITICAL_THRESHOLD, TEMP_CRITICAL_THRESHOLD + 1}
CountValues == {expected_samples, expected_samples + 1}

\* Record times: the query ranges end at the present.
RecordsOf(values) ==
    UNION {[1..n -> [value : values, time : {now}]] : n \in 0..MaxRecords}

\* What query_api().query(query) may do: raise, or return records.
QueryAnswers(values) ==
    {[raised |-> TRUE, records |-> <<>>]}
        \cup {[raised |-> FALSE, records |-> r] : r \in RecordsOf(values)}

\* A check without its try/except: the exception of the query leaves the check.
check_uncaught(answer, metric, alert_key, cooldown_minutes, level, fault) ==
    IF answer.raised
    THEN [alert_state |-> alert_state, alert_history |-> alert_history,
          ret |-> NoAlert, call |-> NoCall, granted |-> FALSE, failed |-> FALSE,
          escaped |-> TRUE]
    ELSE check_records(answer.records, metric, alert_key, cooldown_minutes, level,
                       fault, alert_state, alert_history)

\* What a check does between its entry and its return, given the query's answer:
\* an exception of the query is caught by the check (lines 58-60, 101-103), which
\* returns None.
check(answer, metric, alert_key, cooldown_minutes, level, fault) ==
    IF answer.raised
    THEN [alert_state |-> alert_state, alert_history |-> alert_history,
          ret |-> NoAlert, call |-> NoCall, granted |-> FALSE, failed |-> FALSE,
          escaped |-> FALSE]
    ELSE check_records(answer.records, metric, alert_key, cooldown_minutes, level,
                       fault, alert_state, alert_history)

\* The bookkeeping of one finished check.  An exception that left the check would
\* be caught by alert_worker (main.py lines 326-328), which sleeps and starts the
\* next round.
AfterCheck(r, next_pc) ==
    /\ alert_state' = r.alert_state
    /\ alert_history' = r.alert_history
    /\ last_call' = IF r.call = NoCall THEN last_call ELSE r.call
    /\ grant_log' = IF r.granted
                    THEN Append(grant_log, [key |-> r.call.key, at |-> now,
                                            cooldown |-> r.call.cooldown,
                                            failed |-> r.failed])
                    ELSE grant_log
    /\ handling' = [alert |-> r.ret, stage |-> IF r.ret = NoAlert THEN "none" ELSE "summary",
                    then |-> next_pc]
    /\ worker_pc' = IF r.escaped THEN "sleep"
                     ELSE IF r.ret = NoAlert THEN next_pc ELSE "handle_alert"

\* alert_worker: temp_alert = await alert_engine.check_temperature_critical("pressure")
check_temperature_critical ==
    /\ worker_pc = "check_temp"
    /\ \E answer \in QueryAnswers(TempValues), fault \in Faults :
         AfterCheck(check(answer, "temperature", TempKey, TEMP_COOLDOWN_MINUTES,
                          "CRITICAL", fault), "check_vib")
    /\ UNCHANGED <<unit, now, policyVars, escalationVars>>

\* alert_worker: vib_alert = await alert_engine.check_vibration_sustained("vibration")
check_vibration_sustained ==
    /\ worker_pc = "check_vib"
    /\ \E answer \in QueryAnswers(CountValues), fault \in Faults :
         AfterCheck(check(answer, "vibration", VibKey, VIB_COOLDOWN_MINUTES,
                          "WARNING", fault), "sleep")
    /\ UNCHANGED <<unit, now, policyVars, escalationVars>>

\* The grant that produced the alert being handled is marked as followed by a failure.
MarkFailed(log, alert) ==
    [i \in 1..Len(log) |->
        IF i = Len(log) /\ log[i].key = alert.key THEN [log[i] EXCEPT !.failed = TRUE]
        ELSE log[i]]

\* What a step of handle_alert may come to.  generate_alert_summary catches every
\* exception of the request and returns "" (llm_client.py lines 29-55), so the summary
\* step ends with a text or with the empty string; the e-mail and broadcast steps
\* return or raise.
StepOutcomes(stage) ==
    IF stage = "summary" THEN {"text", "empty"} ELSE {"ok", "raised"}

\* handle_alert giving up on the alert when the summary is empty.
after_summary_abort(llm_summary) ==
    IF llm_summary = "empty" THEN "none" ELSE "email"

\* handle_alert, lines 335-342: the summary is attached when it is not empty, and
\* the e-mail step follows in either case.
after_summary(llm_summary) == "email"

\* handle_alert: summary, then e-mail, then broadcast, each awaited; an exception
\* raised by a step is caught by handle_alert and ends it.
handle_alert ==
    /\ worker_pc = "handle_alert"
    /\ \E outcome \in StepOutcomes(handling.stage) :
         LET following == IF handling.stage = "summary" THEN after_summary(outcome)
                          ELSE IF handling.stage = "email" /\ outcome = "ok"
                               THEN "broadcast"
                          ELSE "none"
             last == following = "none"
         IN  /\ handling' = IF last THEN [alert |-> NoAlert, stage |-> "none",
                                          then |-> handling.then]
                            ELSE [handling EXCEPT !.stage = following]
             /\ worker_pc' = IF last THEN handling.then ELSE worker_pc
             /\ grant_log' = IF outcome \in {"raised", "empty"}
                             THEN MarkFailed(grant_log, handling.alert)
                             ELSE grant_log
    /\ UNCHANGED <<unit, now, alert_state, alert_history, last_call, policyVars, escalationVars>>

\* What is kept of one check: which check it was, whether its query raised, whether
\* it returned an alert, whether it left alert_state and alert_history as they
\* were, and where alert_worker stood after it.
QueryRecord(name, answer, r) ==
    [key |-> "query", check |-> name, raised |-> answer.raised,
     returned_alert |-> r.ret # NoAlert,
     untouched |-> r.alert_state = alert_state /\ r.alert_history = alert_history,
     then |-> worker_pc']

\* check_temperature_critical as alert_worker awaits it, the outcome of its query kept.
query_temperature ==
    /\ worker_pc = "check_temp"
    /\ \E answer \in QueryAnswers(TempValues), fault \in Faults :
         LET r == check(answer, "temperature", TempKey, TEMP_COOLDOWN_MINUTES,
                        "CRITICAL", fault)
         IN  /\ AfterCheck(r, "check_vib")
             /\ unit' = QueryRecord("temperature", answer, r)
    /\ UNCHANGED <<now, policyVars, escalationVars>>

\* check_vibration_sustained as alert_worker awaits it, the outcome of its query kept.
\* What one call of check_temperature_critical was given and what it did: the
\* readings the query returned, the timestamp of the key before the call, the alert
\* returned, and what became of alert_state and alert_history.
ReadingRecord(answer, r) ==
    [key |-> "check_temperature_critical", at |-> now,
     raised |-> answer.raised,
     values |-> {answer.records[i].value : i \in DOMAIN answer.records},
     before |-> alert_state[TempKey],
     ret |-> r.ret,
     saved |-> r.alert_history # <<>> /\ r.alert_history[Len(r.alert_history)] = r.ret,
     added |-> Len(r.alert_history) - Len(alert_history),
     untouched |-> r.alert_state = alert_state /\ r.alert_history = alert_history]

\* check_temperature_critical, with what the call was given and did kept.
reading_temperature ==
    /\ worker_pc = "check_temp"
    /\ \E answer \in QueryAnswers(TempValues), fault \in Faults :
         LET r == check(answer, "temperature", TempKey, TEMP_COOLDOWN_MINUTES,
                        "CRITICAL", fault)
         IN  /\ AfterCheck(r, "check_vib")
             /\ unit' = ReadingRecord(answer, r)
    /\ UNCHANGED <<now, policyVars, escalationVars>>

query_vibration ==
    /\ worker_pc = "check_vib"
    /\ \E answer \in QueryAnswers(CountValues), fault \in Faults :
         LET r == check(answer, "vibration", VibKey, VIB_COOLDOWN_MINUTES,
                        "WARNING", fault)
         IN  /\ AfterCheck(r, "sleep")
             /\ unit' = QueryRecord("vibration", answer, r)
    /\ UNCHANGED <<now, policyVars, escalationVars>>

\* A second coroutine of the event loop that awaits one of the checks on the same
\* AlertEngine.  It runs while alert_worker is suspended; the check has no await that
\* yields (the telemetry query is a blocking call), so it runs from its entry to its
\* return without another coroutine in between.  The alert it returns is dropped.
concurrent_check ==
    /\ worker_pc \in {"sleep", "handle_alert"}
    /\ \E name \in {"temperature", "vibration"}, fault \in Faults :
         \E answer \in QueryAnswers(IF name = "temperature" THEN TempValues
                                    ELSE CountValues) :
            LET r == IF name = "temperature"
                     THEN check(answer, "temperature", TempKey, TEMP_COOLDOWN_MINUTES,
                                "CRITICAL", fault)
                     ELSE check(answer, "vibration", VibKey, VIB_COOLDOWN_MINUTES,
                                "WARNING", fault)
            IN  /\ alert_state' = r.alert_state
                /\ alert_history' = r.alert_history
                /\ last_call' = IF r.call = NoCall THEN last_call ELSE r.call
                /\ grant_log' = IF r.granted
                                THEN Append(grant_log, [key |-> r.call.key, at |-> now,
                                                        cooldown |-> r.call.cooldown,
                                                        failed |-> r.failed])
                                ELSE grant_log
    /\ UNCHANGED <<unit, now, worker_pc, handling, policyVars, escalationVars>>

\* alert_worker is suspended, and other code of the event loop can run, only in its
\* sleep and in the awaits of handle_alert: the checks have no await that yields.
Suspended == worker_pc \in {"sleep", "handle_alert"}

\* The code of lifespan after its yield (main.py lines 281-291): it stops the MQTT
\* client and closes the InfluxDB client; the task made by
\* asyncio.create_task(alert_worker()) is not kept and not cancelled.
lifespan_shutdown ==
    /\ unit = NoCall
    /\ Suspended
    /\ unit' = [key |-> "lifespan_shutdown", at |-> now]
    /\ UNCHANGED <<now, cooldownVars, policyVars, escalationVars>>

\* A cancellation delivered to the task of alert_worker: CancelledError is raised at
\* the await the task is suspended in; the handlers on its way (main.py lines 129,
\* 326, 351, notifier.py line 55, llm_client.py line 53) are "except Exception", which
\* does not catch it, and the task ends.
cancel_alert_worker ==
    /\ Suspended
    /\ worker_pc' = "cancelled"
    /\ handling' = [alert |-> NoAlert, stage |-> "none", then |-> "cancelled"]
    /\ UNCHANGED <<unit, now, alert_state, alert_history, last_call, grant_log,
                   policyVars, escalationVars>>

\* Time passes while alert_worker sleeps, in the runs that keep the queries' outcomes.
QueryTick ==
    /\ worker_pc = "sleep"
    /\ \E d \in CooldownDelays : now + d <= MaxQueryTime /\ now' = now + d
    /\ UNCHANGED <<unit, cooldownVars, policyVars, escalationVars>>

\* alert_worker: await asyncio.sleep(5), then the next round of the loop.
worker_sleep ==
    /\ worker_pc = "sleep"
    /\ worker_pc' = "check_temp"
    /\ UNCHANGED <<unit, now, alert_state, alert_history, handling, last_call, grant_log,
                   policyVars, escalationVars>>

\* Time passes while alert_worker is suspended in an await.
CooldownTick ==
    /\ worker_pc \in {"sleep", "handle_alert"}
    /\ \E d \in CooldownDelays : now + d <= MaxTime /\ now' = now + d
    /\ UNCHANGED <<unit, cooldownVars, policyVars, escalationVars>>


\* ------------------------------------------------------------------------
\* EnhancedAlertEngine (src/alert_engine/enhanced_policy.py)
\* ------------------------------------------------------------------------
\* class AlertSeverity(Enum)
AlertSeverity == [INFO |-> 1, WARNING |-> 2, CRITICAL |-> 3, EMERGENCY |-> 4]

SeverityNames == DOMAIN AlertSeverity

\* timedelta(minutes=5), in seconds
duplicate_check_window == 5 * 60

\* _load_policies: the three policies, in registration order.  The names stand for
\* the Korean policy names of the source.
policies ==
    << [name |-> "overheat_warning",
        conditions |-> << [metric |-> "temperature", operator |-> ">", value |-> 80],
                          [metric |-> "humidity", operator |-> "<", value |-> 30] >>,
        severity |-> "WARNING",
        escalation_time |-> 15,
        notification_channels |-> <<"slack", "email">>,
        auto_actions |-> <<"log", "notify_operator">>],
       [name |-> "critical_state",
        conditions |-> << [metric |-> "temperature", operator |-> ">", value |-> 90],
                          [metric |-> "vibration_magnitude", operator |-> ">", value |-> 85] >>,
        severity |-> "EMERGENCY",
        escalation_time |-> 5,
        notification_channels |-> <<"slack", "email", "sms", "call">>,
        auto_actions |-> <<"log", "emergency_shutdown", "notify_manager">>],
       [name |-> "predictive_maintenance",
        conditions |-> << [metric |-> "vibration_trend", operator |-> "increasing",
                           window |-> "7d"],
                          [metric |-> "temperature_stddev", operator |-> ">", value |-> 5] >>,
        severity |-> "INFO",
        escalation_time |-> 60,
        notification_channels |-> <<"email">>,
        auto_actions |-> <<"log", "schedule_maintenance">>] >>

\* dict.get(key): None when the key is missing
Get(d, key) == IF key \in DOMAIN d THEN d[key] ELSE None

\* _check_trend: a stub that always answers False
_check_trend(metric, window) == FALSE

\* _check_conditions with the comparisons >= and <= in place of > and <.
RECURSIVE _check_conditions_inclusive(_, _)
_check_conditions_inclusive(data, conditions) ==
    IF conditions = <<>> THEN TRUE
    ELSE LET condition == Head(conditions)
             metric == condition.metric
             operator == condition.operator
             threshold == Get(condition, "value")
             current_value == Get(data, metric)
         IN  IF metric \notin DOMAIN data /\ operator # "increasing" THEN FALSE
             ELSE IF operator = ">" /\ ~(current_value # None /\ current_value >= threshold)
                  THEN FALSE
             ELSE IF operator = "<" /\ ~(current_value # None /\ current_value <= threshold)
                  THEN FALSE
             ELSE IF operator = "increasing"
                     /\ ~_check_trend(metric, IF "window" \in DOMAIN condition
                                               THEN condition.window ELSE "1h")
                  THEN FALSE
             ELSE _check_conditions_inclusive(data, Tail(conditions))

\* _check_conditions returning after its first pass: a list whose first condition
\* holds is found true whatever the later ones are.
_check_conditions_first(data, conditions) ==
    IF conditions = <<>> THEN TRUE
    ELSE LET condition == Head(conditions)
             metric == condition.metric
             operator == condition.operator
             threshold == Get(condition, "value")
             current_value == Get(data, metric)
         IN  IF metric \notin DOMAIN data /\ operator # "increasing" THEN FALSE
             ELSE IF operator = ">" THEN current_value # None /\ current_value > threshold
             ELSE IF operator = "<" THEN current_value # None /\ current_value < threshold
             ELSE IF operator = "increasing"
                  THEN _check_trend(metric, IF "window" \in DOMAIN condition
                                            THEN condition.window ELSE "1h")
             ELSE TRUE

\* _check_conditions: AND over the conditions, leaving at the first false one.
RECURSIVE _check_conditions(_, _)
_check_conditions(data, conditions) ==
    IF conditions = <<>> THEN TRUE
    ELSE LET condition == Head(conditions)
             metric == condition.metric
             operator == condition.operator
             threshold == Get(condition, "value")
             current_value == Get(data, metric)
         IN  IF metric \notin DOMAIN data /\ operator # "increasing" THEN FALSE
             ELSE IF operator = ">" /\ ~(current_value # None /\ current_value > threshold)
                  THEN FALSE
             ELSE IF operator = "<" /\ ~(current_value # None /\ current_value < threshold)
                  THEN FALSE
             ELSE IF operator = "increasing"
                     /\ ~_check_trend(metric, IF "window" \in DOMAIN condition
                                               THEN condition.window ELSE "1h")
                  THEN FALSE
             ELSE _check_conditions(data, Tail(conditions))

\* The test of _is_duplicate on one stored alert: same policy_name and severity.
SameKey(alert, new_alert) ==
    alert.policy_name = new_alert.policy_name /\ alert.severity = new_alert.severity

\* The scan of _is_duplicate with a window that includes its end:
\* current_time - alert_ts <= window.
RECURSIVE scan_inclusive(_, _, _, _)
scan_inclusive(history, i, new_alert, current_time) ==
    IF i = 0 THEN FALSE
    ELSE IF current_time - history[i].timestamp <= duplicate_check_window
         THEN IF SameKey(history[i], new_alert) THEN TRUE
              ELSE scan_inclusive(history, i - 1, new_alert, current_time)
         ELSE FALSE

\* _is_duplicate with that window.
_is_duplicate_inclusive(history, new_alert, current_time) ==
    scan_inclusive(history, Len(history), new_alert, current_time)

\* The scan of _is_duplicate with the operands of the subtraction exchanged:
\* alert_ts - current_time < window.
RECURSIVE scan_swapped(_, _, _, _)
scan_swapped(history, i, new_alert, current_time) ==
    IF i = 0 THEN FALSE
    ELSE IF history[i].timestamp - current_time < duplicate_check_window
         THEN IF SameKey(history[i], new_alert) THEN TRUE
              ELSE scan_swapped(history, i - 1, new_alert, current_time)
         ELSE FALSE

\* The loop of _is_duplicate over reversed(self.alert_history), from entry i down:
\* an entry inside the window with the same key answers True, the first entry
\* outside the window ends the scan (break).
RECURSIVE scan_reversed(_, _, _, _)
scan_reversed(history, i, new_alert, current_time) ==
    IF i = 0 THEN FALSE
    ELSE IF current_time - history[i].timestamp < duplicate_check_window
         THEN IF SameKey(history[i], new_alert) THEN TRUE
              ELSE scan_reversed(history, i - 1, new_alert, current_time)
         ELSE FALSE

\* _is_duplicate with that subtraction.
_is_duplicate_swapped(history, new_alert, current_time) ==
    scan_swapped(history, Len(history), new_alert, current_time)

\* _is_duplicate; current_time is datetime.utcnow() at the call.  The timestamps are
\* written with isoformat() and read back with fromisoformat(), which returns the
\* datetime that was written.
_is_duplicate(history, new_alert, current_time) ==
    scan_reversed(history, Len(history), new_alert, current_time)

\* _generate_ai_analysis: the mock returns a dict, response.choices raises
\* AttributeError, and the except branch returns the error text.
_generate_ai_analysis(policy, data) == "ai_analysis_error"

\* _get_recommended_actions
_get_recommended_actions(policy) == policy.auto_actions

\* _create_alert, after its await: the alert dict (the uuid is left out).
_create_alert(policy, data, t) ==
    [timestamp |-> t,
     policy_name |-> policy.name,
     severity |-> policy.severity,
     equipment_id |-> IF "equipment_id" \in DOMAIN data THEN data.equipment_id ELSE "N/A",
     sensor_values |-> [temperature |-> Get(data, "temperature"),
                        humidity |-> Get(data, "humidity"),
                        vibration |-> Get(data, "vibration"),
                        noise |-> Get(data, "noise")],
     llm_summary |-> _generate_ai_analysis(policy, data),
     recommended_actions |-> _get_recommended_actions(policy),
     escalation_time |-> policy.escalation_time,
     status |-> "pending"]

\* The tokens _execute_actions has a branch for.
HandledActions == {"log", "notify_operator", "emergency_shutdown", "schedule_maintenance"}

\* The sensor snapshots handed to evaluate_policies.
Snapshots ==
    { [equipment_id |-> "M1", temperature |-> 95, humidity |-> 20],
      [equipment_id |-> "M1", temperature |-> 95, humidity |-> 20,
       vibration_magnitude |-> 90],
      [equipment_id |-> "M1", temperature |-> 80, humidity |-> 20,
       temperature_stddev |-> 6] }

Callers == {"t1", "t2"}

\* A caller that is not inside evaluate_policies; after a call it keeps how the call
\* ended, and whether it left actions of an accepted alert or policies untouched.
\* triggered_alerts is the local list of the call (the alerts by their places in
\* alert_history), after the call the list it returned; appended are the places the
\* call appended to alert_history.  While the call is suspended in _create_alert,
\* seen is the length alert_history had and entered the time it was when the call
\* got there.
IdleTask == [pc |-> "idle", data |-> <<>>, i |-> 0, a |-> 0, result |-> "none",
             skipped_actions |-> FALSE, skipped_policies |-> FALSE,
             triggered_alerts |-> <<>>, appended |-> <<>>,
             seen |-> 0, entered |-> 0]

\* The first policy at or after index i whose conditions hold, 0 when there is none:
\* the for loop of evaluate_policies up to its next await.
RECURSIVE next_policy(_, _)
next_policy(data, i) ==
    IF i > Len(policies) THEN 0
    ELSE IF _check_conditions(data, policies[i].conditions) THEN i
    ELSE next_policy(data, i + 1)

\* The first action of the policy at or after index a that _execute_actions awaits,
\* 0 when there is none: a token without a branch is passed over.
RECURSIVE next_action(_, _)
next_action(policy, a) ==
    IF a > Len(policy.auto_actions) THEN 0
    ELSE IF policy.auto_actions[a] \in HandledActions THEN a
    ELSE next_action(policy, a + 1)

\* The task after the loop moved on from policy i - 1, alert_history having the
\* length held: suspended in _create_alert for the next matching policy, or returned.
continue_loop(t, i, held) ==
    LET j == next_policy(t.data, i) IN
    IF j = 0
    THEN [IdleTask EXCEPT !.result = "returned",
                          !.triggered_alerts = t.triggered_alerts,
                          !.appended = t.appended]
    ELSE [t EXCEPT !.pc = "create", !.i = j, !.a = 0, !.seen = held, !.entered = now]

\* The alerts a call with this snapshot would add to the history at the present
\* time; a run starts a call only when its bound on the history has room for them.
NewAlerts(data) ==
    Cardinality({i \in 1..Len(policies) :
                    /\ _check_conditions(data, policies[i].conditions)
                    /\ ~_is_duplicate(policy_history,
                                      _create_alert(policies[i], data, now), now)})

Room(data, limit) == Len(policy_history) + NewAlerts(data) <= limit

\* A call of evaluate_policies(sensor_data), up to its first await.
evaluate_policies(c, data) ==
    /\ task[c].pc = "idle"
    /\ task' = [task EXCEPT ![c] = continue_loop([IdleTask EXCEPT !.data = data], 1,
                                                 Len(policy_history))]
    /\ UNCHANGED <<unit, now, policy_history, last_dedup, cooldownVars, escalationVars>>

\* The timestamp of an alert taken when the call entered _create_alert, before the
\* await of the summarizer.
alert_time_at_entry(t) == t.entered

\* _create_alert, line 197: datetime.utcnow() is read after the await of
\* _generate_ai_analysis, when the task runs again.
alert_time(t) == now

\* The duplicate check made on alert_history as it was before the await of
\* _create_alert.
scanned_history_stale(t) == SubSeq(policy_history, 1, t.seen)

\* evaluate_policies, line 109: _is_duplicate reads self.alert_history after the
\* await of _create_alert, with no await up to the append of line 110.
scanned_history(t) == policy_history

\* evaluate_policies from the return of the summarizer's await: the alert is built
\* with the time of this moment, checked against the history, and if it is no
\* duplicate appended to triggered_alerts and alert_history; then the first action
\* is awaited, or the loop goes on.
create_alert_done(c) ==
    /\ task[c].pc = "create"
    /\ LET t == task[c]
           policy == policies[t.i]
           alert == _create_alert(policy, t.data, alert_time(t))
           dup == _is_duplicate(scanned_history(t), alert, now)
           b == next_action(policy, 1)
       IN  /\ IF dup
              THEN /\ policy_history' = policy_history
                   /\ notifications' = notifications
                   /\ task' = [task EXCEPT ![c] =
                                 continue_loop(t, t.i + 1, Len(policy_history))]
              ELSE /\ policy_history' = Append(policy_history, alert)
                   /\ notifications' = Append(notifications,
                                              [escalated |-> "never", unpending |-> FALSE])
                   /\ task' = [task EXCEPT ![c] =
                                 LET place == Len(policy_history) + 1
                                     u == [t EXCEPT
                                             !.triggered_alerts = Append(@, place),
                                             !.appended = Append(@, place)]
                                 IN  IF b = 0 THEN continue_loop(u, t.i + 1, place)
                                     ELSE [u EXCEPT !.pc = "actions", !.a = b,
                                                    !.seen = 0, !.entered = 0]]
           /\ last_dedup' =
                [key |-> "is_duplicate", result |-> dup,
                 in_window |-> \E k \in 1..Len(policy_history) :
                                  /\ SameKey(policy_history[k], alert)
                                  /\ now - policy_history[k].timestamp < 5 * 60,
                 clear |-> \A k \in 1..Len(policy_history) :
                              SameKey(policy_history[k], alert) =>
                                 now - policy_history[k].timestamp > 5 * 60,
                 appended |-> Len(policy_history') > Len(policy_history),
                 acting |-> task'[c].pc = "actions" /\ task'[c].i = t.i]
    /\ UNCHANGED <<unit, now, monitor, cooldownVars>>

\* An exception that leaves _execute_actions: nothing in _execute_actions or
\* evaluate_policies catches it, the call ends without returning and its local list
\* triggered_alerts is lost.
action_raised(t) ==
    [IdleTask EXCEPT !.result = "raised",
                     !.skipped_actions = next_action(policies[t.i], t.a + 1) # 0,
                     !.skipped_policies = t.i < Len(policies),
                     !.appended = t.appended]

\* _execute_actions from the return of one awaited action: the next action with a
\* branch is awaited, or the loop of evaluate_policies goes on.
action_returned(t) ==
    LET b == next_action(policies[t.i], t.a + 1) IN
    IF b = 0 THEN continue_loop(t, t.i + 1, Len(policy_history)) ELSE [t EXCEPT !.a = b]

\* One awaited action of _execute_actions returns or raises.
execute_action(c) ==
    /\ task[c].pc = "actions"
    /\ \E outcome \in {"ok", "raised"} :
         task' = [task EXCEPT ![c] = IF outcome = "ok" THEN action_returned(task[c])
                                     ELSE action_raised(task[c])]
    /\ UNCHANGED <<unit, now, policy_history, last_dedup, cooldownVars, escalationVars>>

\* ------------------------------------------------------------------------
\* AlertEscalationManager (src/alert_engine/escalation.py)
\* ------------------------------------------------------------------------
\* The source calls get_pending_alerts, _get_elapsed_time, _get_policy,
\* _increase_severity, _notify_manager and _send_emergency_notifications without
\* defining them; they are modelled after the design's section 4.7, over the alerts
\* EnhancedAlertEngine stores.  Stored alerts are named by their index in
\* policy_history, the list holds references to the alert dicts.

\* get_pending_alerts: the stored alerts whose status is pending, oldest first.
get_pending_alerts ==
    SelectSeq([i \in 1..Len(policy_history) |-> i],
              LAMBDA i : policy_history[i].status = "pending")

\* _get_elapsed_time: the time since the alert was created.
_get_elapsed_time(alert) == now - alert.timestamp

\* _get_policy: the policy of that name.
_get_policy(policy_name) ==
    policies[CHOOSE i \in 1..Len(policies) : policies[i].name = policy_name]

\* _increase_severity: one step up in INFO < WARNING < CRITICAL < EMERGENCY, staying
\* at EMERGENCY.
_increase_severity(severity) ==
    IF severity = "EMERGENCY" THEN "EMERGENCY"
    ELSE CHOOSE s \in SeverityNames : AlertSeverity[s] = AlertSeverity[severity] + 1

\* An assignment that takes the severity one step down instead.
lower_severity(alert) ==
    IF alert.severity = "INFO" THEN alert
    ELSE [alert EXCEPT !.severity =
            CHOOSE s \in SeverityNames : AlertSeverity[s] = AlertSeverity[alert.severity] - 1]

\* _escalate_alert, lines 24-25: alert['severity'] = self._increase_severity(...).
\* Nothing in _escalate_alert assigns alert['status'].
raise_severity(alert) ==
    [alert EXCEPT !.severity = _increase_severity(alert.severity)]

\* monitor_escalations, lines 10-15: the first alert of pending_alerts at or after
\* position k whose elapsed time has reached its policy's escalation_time (minutes),
\* 0 when there is none.
RECURSIVE next_overdue(_, _)
next_overdue(pending, k) ==
    IF k > Len(pending) THEN 0
    ELSE LET alert == policy_history[pending[k]]
             policy == _get_policy(alert.policy_name)
         IN  IF _get_elapsed_time(alert) >= policy.escalation_time * 60 THEN k
             ELSE next_overdue(pending, k + 1)

\* The for loop of monitor_escalations from position k to its next await: suspended
\* in _notify_manager for the next overdue alert, or in asyncio.sleep(60).
monitor_loop(m, k) ==
    LET j == next_overdue(m.pending, k) IN
    IF j = 0 THEN [m EXCEPT !.pc = "sleep", !.k = 0, !.pending = <<>>]
    ELSE [m EXCEPT !.pc = "notify_manager", !.k = j]

\* The alert the monitor is escalating.
Escalating == monitor.pending[monitor.k]

\* The ledger of what was done to a stored alert counts never, once, more than once.
Again(n) == IF n = "never" THEN "once" ELSE "again"

\* One poll of monitor_escalations: pending_alerts is read and the loop runs to its
\* first await.  The 60 s of asyncio.sleep are shorter than the steps of the clock,
\* so two polls in a row may read the same time; the test elapsed >= escalation_time
\* is monotone in the time read, so an alert escalated at that reading is also
\* escalated at the later true time.
monitor_poll ==
    /\ monitor.pc = "sleep"
    /\ monitor' = monitor_loop([monitor EXCEPT !.pending = get_pending_alerts], 1)
    /\ UNCHANGED <<unit, now, policy_history, notifications, task, last_dedup, cooldownVars>>

\* An _escalate_alert that raises the severity before it notifies the manager: the
\* raised severity stays when the notification fails.
notify_failed_raised(before, raised) == raised

\* An exception of _notify_manager (line 22) leaves _escalate_alert before line 25
\* is reached: the stored alerts are as they were.
notify_failed(before, raised) == before

\* _escalate_alert from the return of _notify_manager: the severity is raised and
\* _send_emergency_notifications is awaited.  An exception of _notify_manager leaves
\* _escalate_alert and monitor_escalations, which catch nothing.
notify_manager_done ==
    /\ monitor.pc = "notify_manager"
    /\ \E outcome \in {"ok", "raised"} :
         LET raised == [policy_history EXCEPT ![Escalating] = raise_severity(@)] IN
         IF outcome = "ok"
         THEN /\ policy_history' = raised
              /\ notifications' = [notifications EXCEPT ![Escalating].escalated = Again(@)]
              /\ monitor' = [monitor EXCEPT !.pc = "emergency"]
         ELSE /\ monitor' = [monitor EXCEPT !.pc = "dead"]
              /\ policy_history' = notify_failed(policy_history, raised)
              /\ UNCHANGED notifications
    /\ UNCHANGED <<unit, now, task, last_dedup, cooldownVars>>

\* _escalate_alert from the return of _send_emergency_notifications: the escalation
\* is logged and the loop goes on with the rest of pending_alerts.
emergency_done ==
    /\ monitor.pc = "emergency"
    /\ \E outcome \in {"ok", "raised"} :
         IF outcome = "ok"
         THEN LET m == monitor_loop(monitor, monitor.k + 1) IN
              /\ monitor' = m
              /\ notifications' =
                   IF m.pc = "notify_manager"
                      /\ policy_history[m.pending[m.k]].status # "pending"
                   THEN [notifications EXCEPT ![m.pending[m.k]].unpending = TRUE]
                   ELSE notifications
         ELSE /\ monitor' = [monitor EXCEPT !.pc = "dead"]
              /\ UNCHANGED notifications
    /\ UNCHANGED <<unit, now, policy_history, task, last_dedup, cooldownVars>>

\* acknowledge(alertId), by an outside caller: PENDING or ESCALATED -> ACKNOWLEDGED.
acknowledge ==
    /\ \E i \in 1..Len(policy_history) :
         /\ policy_history[i].status \in {"pending", "escalated"}
         /\ policy_history' = [policy_history EXCEPT ![i].status = "acknowledged"]
    /\ UNCHANGED <<unit, now, notifications, monitor, task, last_dedup, cooldownVars>>

\* resolve(alertId), by an outside caller: ACKNOWLEDGED -> RESOLVED.
resolve ==
    /\ \E i \in 1..Len(policy_history) :
         /\ policy_history[i].status = "acknowledged"
         /\ policy_history' = [policy_history EXCEPT ![i].status = "resolved"]
    /\ UNCHANGED <<unit, now, notifications, monitor, task, last_dedup, cooldownVars>>

\* Time passes while the coroutines are suspended.  The awaits inside a call of
\* evaluate_policies and inside one poll last fractions of a second; at the clock's
\* resolution time passes between calls and while the monitor sleeps its 60 s.
PolicyDelays == {299, 300, 301}

\* The records of how the last call of evaluate_policies went describe the present
\* instant; they are dropped when the clock moves.
Forget ==
    /\ task' = [c \in Callers |-> IdleTask]
    /\ last_dedup' = NoCall

\* The system clock is set back (datetime.utcnow() reads the wall clock, not a
\* monotonic one); the runs set it back to the reading at the start.
ClockStepBack ==
    /\ \A c \in Callers : task[c].pc = "idle"
    /\ now > 0
    /\ now' = 0
    /\ Forget
    /\ UNCHANGED <<unit, policy_history, cooldownVars, escalationVars>>

PolicyTick ==
    /\ monitor.pc \in {"sleep", "dead"}
    /\ \A c \in Callers : task[c].pc = "idle"
    /\ \E d \in PolicyDelays : now + d <= MaxPolicyTime /\ now' = now + d
    /\ Forget
    /\ UNCHANGED <<unit, policy_history, cooldownVars, escalationVars>>

\* Time passes while calls of evaluate_policies are suspended in their awaits; the
\* records of the calls that have ended are dropped.
ConcurrentTick ==
    /\ \E d \in PolicyDelays : now + d <= MaxPolicyTime /\ now' = now + d
    /\ task' = [c \in Callers |-> IF task[c].pc = "idle" THEN IdleTask ELSE task[c]]
    /\ last_dedup' = NoCall
    /\ UNCHANGED <<unit, policy_history, cooldownVars, escalationVars>>

\* A steady stream of evaluations: the clock moves on by the dedup window once the
\* evaluation at the present time has stored its alert and returned.
StreamTick ==
    /\ \A c \in Callers : task[c].pc = "idle"
    /\ policy_history # <<>>
    /\ policy_history[Len(policy_history)].timestamp = now
    /\ now' = now + duplicate_check_window
    /\ Forget
    /\ UNCHANGED <<unit, policy_history, cooldownVars, escalationVars>>

\* A snapshot with the two inputs of the emergency policy and no humidity.
EmergencySnapshot == [equipment_id |-> "M1", temperature |-> 95, vibration_magnitude |-> 90]

\* The snapshot of that stream: the overheat policy matches it on every evaluation.
\* The snapshots on which the conditions of the first policy hold.
WindowSnapshots ==
    {data \in Snapshots : _check_conditions(data, policies[1].conditions)}

\* Time passes between two calls of a caller that evaluates a snapshot at every
\* reading of the clock: the clock moves once the call made at this reading is over.
WindowTick ==
    /\ \A c \in Callers : task[c].pc = "idle"
    /\ task["t1"].result # "none"
    /\ \E d \in PolicyDelays : now + d <= MaxWindowTime /\ now' = now + d
    /\ Forget
    /\ UNCHANGED <<unit, policy_history, cooldownVars, escalationVars>>

StreamSnapshot == [equipment_id |-> "M1", temperature |-> 95, humidity |-> 20]

\* ------------------------------------------------------------------------
\* Single calls of the synchronous methods
\* ------------------------------------------------------------------------
\* The metrics and readings of the snapshots handed to _check_conditions: a metric
\* may be missing, present with None, or present below, at or above a threshold.
UnitMetrics == {"temperature", "vibration_magnitude", "vibration_trend"}

UnitReadings == {None, 80, 85, 90, 95}

UnitSnapshots == UNION {[S -> UnitReadings] : S \in SUBSET UnitMetrics}

\* Conditions lists: those of the loaded policies, and lists of one condition.
SingleConditions ==
    {[metric |-> m, operator |-> op, value |-> t] :
        m \in {"temperature", "vibration_magnitude"}, op \in {">", "<"}, t \in {85, 90}}
    \cup {[metric |-> "vibration_trend", operator |-> "increasing", window |-> "7d"],
          [metric |-> "vibration_trend", operator |-> "increasing", value |-> 85]}

UnitConditions ==
    {policies[i].conditions : i \in 1..Len(policies)} \cup {<<c>> : c \in SingleConditions}

\* One pass of the loop body of _check_conditions (enhanced_policy.py lines 119-137):
\* TRUE when the pass does not return False.
condition_passes(data, condition) ==
    LET metric == condition.metric
        operator == condition.operator
        threshold == Get(condition, "value")
        current_value == Get(data, metric)
    IN  IF metric \notin DOMAIN data /\ operator # "increasing" THEN FALSE
        ELSE IF operator = ">" THEN current_value # None /\ current_value > threshold
        ELSE IF operator = "<" THEN current_value # None /\ current_value < threshold
        ELSE IF operator = "increasing"
             THEN _check_trend(metric, IF "window" \in DOMAIN condition
                                       THEN condition.window ELSE "1h")
        ELSE TRUE

\* The number of passes of the loop of _check_conditions before it returns.
RECURSIVE passes_made(_, _)
passes_made(data, conditions) ==
    IF conditions = <<>> THEN 0
    ELSE IF condition_passes(data, Head(conditions))
         THEN 1 + passes_made(data, Tail(conditions))
         ELSE 1

\* _check_conditions of src/sensor_engine/enhanced_scenarios.py (lines 112-134): the
\* threshold is read with condition['value'], a KeyError when the condition has no
\* such field.  The result tells whether the call raised, and what it returned.
RECURSIVE scenarios_check_conditions(_, _)
scenarios_check_conditions(data, conditions) ==
    IF conditions = <<>> THEN [raised |-> FALSE, value |-> TRUE]
    ELSE LET condition == Head(conditions)
             metric == condition.metric
             operator == condition.operator
             threshold == condition.value
             current_value == Get(data, metric)
         IN  IF "value" \notin DOMAIN condition
             THEN [raised |-> TRUE, value |-> FALSE]
             ELSE IF metric \notin DOMAIN data /\ operator # "increasing"
                  THEN [raised |-> FALSE, value |-> FALSE]
             ELSE IF operator = ">" /\ ~(current_value # None /\ current_value > threshold)
                  THEN [raised |-> FALSE, value |-> FALSE]
             ELSE IF operator = "<" /\ ~(current_value # None /\ current_value < threshold)
                  THEN [raised |-> FALSE, value |-> FALSE]
             ELSE IF operator = "increasing"
                     /\ ~_check_trend(metric, IF "window" \in DOMAIN condition
                                               THEN condition.window ELSE "1h")
                  THEN [raised |-> FALSE, value |-> FALSE]
             ELSE scenarios_check_conditions(data, Tail(conditions))

\* A call of EnhancedAlertEngine._check_conditions (src/alert_engine).
call_check_conditions ==
    /\ unit = NoCall
    /\ \E data \in UnitSnapshots, conditions \in UnitConditions :
         unit' = [key |-> "_check_conditions", data |-> data, conditions |-> conditions,
                  raised |-> FALSE,
                  value |-> _check_conditions(data, conditions),
                  passes |-> passes_made(data, conditions)]
    /\ UNCHANGED <<now, cooldownVars, policyVars, escalationVars>>

\* Conditions with an operator that _check_conditions has no branch for, alone and
\* next to a condition it knows.
UnknownConditions ==
    {[metric |-> m, operator |-> op, value |-> 90] :
        m \in {"temperature", "vibration_magnitude"}, op \in {"==", ">="}}

OperatorConditions ==
    {<<u>> : u \in UnknownConditions}
        \cup {<<u, c>> : u \in UnknownConditions, c \in SingleConditions}
        \cup {<<c, u>> : u \in UnknownConditions, c \in SingleConditions}

\* A call of EnhancedAlertEngine._check_conditions (src/alert_engine) with a
\* condition of an unknown operator in the list.  No statement of the loop body can
\* raise for such a condition: its threshold is read with .get() and never compared.
call_check_conditions_unknown ==
    /\ unit = NoCall
    /\ \E data \in UnitSnapshots, conditions \in OperatorConditions :
         unit' = [key |-> "_check_conditions", data |-> data, conditions |-> conditions,
                  raised |-> FALSE,
                  value |-> _check_conditions(data, conditions),
                  passes |-> passes_made(data, conditions)]
    /\ UNCHANGED <<now, cooldownVars, policyVars, escalationVars>>

\* A call of EnhancedAlertEngine._check_conditions (src/sensor_engine).
call_scenarios_check_conditions ==
    /\ unit = NoCall
    /\ \E data \in UnitSnapshots, conditions \in UnitConditions :
         LET r == scenarios_check_conditions(data, conditions) IN
         unit' = [key |-> "scenarios_check_conditions", data |-> data,
                  conditions |-> conditions, raised |-> r.raised, value |-> r.value]
    /\ UNCHANGED <<now, cooldownVars, policyVars, escalationVars>>

\* The policies handed to _execute_actions: the loaded ones, and one whose
\* auto_actions hold a token without a branch of its own.
UnitPolicies ==
    {policies[i] : i \in 1..Len(policies)}
    \cup {[policies[1] EXCEPT !.auto_actions = <<"log", "reboot", "notify_operator">>]}

\* _execute_actions when no action raises: the tokens whose collaborator it awaits,
\* from position a on, in the order of the awaits.
RECURSIVE awaited_actions(_, _)
awaited_actions(policy, a) ==
    LET b == next_action(policy, a) IN
    IF b = 0 THEN <<>>
    ELSE <<policy.auto_actions[b]>> \o awaited_actions(policy, b + 1)

\* A call of _execute_actions(policy, alert) in which every action returns.
call_execute_actions ==
    /\ unit = NoCall
    /\ \E policy \in UnitPolicies :
         unit' = [key |-> "_execute_actions", policy |-> policy, raised |-> FALSE,
                  invoked |-> awaited_actions(policy, 1)]
    /\ UNCHANGED <<now, cooldownVars, policyVars, escalationVars>>

\* The counts handed to the threshold test of check_vibration_sustained.
UnitCounts == {384, 385, expected_samples, expected_samples + 1}

\* The test "count > expected_samples" of check_vibration_sustained on one count.
call_count_over ==
    /\ unit = NoCall
    /\ \E count \in UnitCounts :
         unit' = [key |-> "count_over", count |-> count, raised |-> FALSE,
                  expected |-> expected_samples, value |-> count_over(count)]
    /\ UNCHANGED <<now, cooldownVars, policyVars, escalationVars>>

\* One call of AlertEngine._save_alert_history, a second after the one before; the
\* alert carries the time of the call.
call_save_alert_history ==
    /\ now < MaxSaves
    /\ alert_history' =
         _save_alert_history(alert_history,
                             [key |-> TempKey, timestamp |-> now, level |-> "CRITICAL",
                              value |-> TEMP_CRITICAL_THRESHOLD + 1])
    /\ now' = now + 1
    /\ UNCHANGED <<unit, alert_state, worker_pc, handling, last_call, grant_log,
                   policyVars, escalationVars>>

\* timedelta(hours = h), in seconds
timedelta_hours(h) == h * 3600

\* get_alert_history with ">=" in place of ">": an alert at the cutoff is returned.
get_alert_history_inclusive(history, hours, t) ==
    LET cutoff == t - timedelta_hours(hours)
        later(alert) == alert.timestamp >= cutoff
    IN  SelectSeq(history, later)

\* AlertEngine.get_alert_history(hours) called at time t.  The timestamp of an alert
\* is written with isoformat() and read back with fromisoformat(), which returns the
\* datetime that was written.
get_alert_history(history, hours, t) ==
    LET cutoff == t - timedelta_hours(hours)
        later(alert) == alert.timestamp > cutoff
    IN  SelectSeq(history, later)

\* The values of the query parameter "hours" of GET /api/alerts/history.
RequestHours == {0, 1, 2}

\* A request GET /api/alerts/history?hours=h, served between two steps of
\* alert_worker.
call_get_alert_history ==
    /\ unit = NoCall
    /\ \E hours \in RequestHours :
         unit' = [key |-> "get_alert_history", hours |-> hours, at |-> now,
                  retained |-> Len(alert_history),
                  alerts |-> get_alert_history(alert_history, hours, now)]
    /\ UNCHANGED <<now, cooldownVars, policyVars, escalationVars>>

\* Time passes while alert_worker sleeps, in the runs with history requests: an hour,
\* or an hour and a second.
RequestTick ==
    /\ worker_pc = "sleep"
    /\ \E d \in {3600, 3601} : now + d <= MaxRequestTime /\ now' = now + d
    /\ UNCHANGED <<unit, cooldownVars, policyVars, escalationVars>>

\* The times of the _can_send_alert calls made one at a time, and the contents of
\* alert_state they find: a key has no timestamp or one of these times.
CallTimes == {0, 300, 600, 601, 1800, 1801}

CallStates == [AlertKeys -> {None} \cup CallTimes]

\* The cooldown the checks pass for a key (alert_engine.py lines 41 and 85).
CooldownOf(alert_key) ==
    IF alert_key = TempKey THEN TEMP_COOLDOWN_MINUTES ELSE VIB_COOLDOWN_MINUTES

\* One call of AlertEngine._can_send_alert(alert_key, cooldown_minutes) at time at,
\* on an engine whose alert_state is before.
call_can_send_alert ==
    /\ unit = NoCall
    /\ \E before \in CallStates, alert_key \in AlertKeys, at \in CallTimes :
         LET c == _can_send_alert(before, alert_key, CooldownOf(alert_key), at) IN
         unit' = [key |-> "_can_send_alert", alert_key |-> alert_key, at |-> at,
                  before |-> before, ok |-> c.ok, after |-> c.state]
    /\ UNCHANGED <<now, cooldownVars, policyVars, escalationVars>>

\* ------------------------------------------------------------------------
\* ConnectionManager (main.py lines 108-131; the same class in
\* moby_backend/core/mock_sensor_alerts.py lines 14-31)
\* ------------------------------------------------------------------------
\* The WebSocket objects of a run, and the coroutines that call broadcast:
\* handle_alert and the MQTT callback's scheduled broadcast.
Sockets == {"ws1", "ws2", "ws3"}

Broadcasters == {"handle_alert", "on_message"}

Range(seq) == {seq[i] : i \in DOMAIN seq}

\* A call of broadcast that has not begun.
IdleBroadcast ==
    [pc |-> "idle", snapshot |-> <<>>, idx |-> 0, conn |-> "none",
     attempts |-> [ws \in Sockets |-> 0], received |-> {}, failed |-> {}]

\* ConnectionManager.__init__, with the sockets not yet accepted and the callers of
\* broadcast not yet started.
NewManager ==
    [key |-> "ConnectionManager",
     active_connections |-> <<>>,
     socket |-> [ws \in Sockets |-> "new"],
     broadcast |-> [b \in Broadcasters |-> IdleBroadcast]]

Manager == IF unit.key = "ConnectionManager" THEN unit ELSE NewManager

\* The loop of broadcast running over self.active_connections itself.
iterated_live(snapshot, active_connections) == active_connections

\* broadcast: "for connection in list(self.active_connections)", a copy made when
\* the loop starts.
iterated(snapshot, active_connections) == snapshot

\* ConnectionManager.disconnect: the socket is removed if it is in the list
\* (list.remove takes out its first occurrence), and nothing happens otherwise.
disconnect(active_connections, websocket) ==
    IF websocket \in Range(active_connections)
    THEN LET i == CHOOSE i \in DOMAIN active_connections :
                     /\ active_connections[i] = websocket
                     /\ \A j \in 1..(i - 1) : active_connections[j] # websocket
         IN  SubSeq(active_connections, 1, i - 1)
                \o SubSeq(active_connections, i + 1, Len(active_connections))
    ELSE active_connections

\* ConnectionManager.connect, from the return of websocket.accept().
connect(websocket) ==
    /\ Manager.socket[websocket] = "new"
    /\ unit' = [Manager EXCEPT
                  !.active_connections = Append(@, websocket),
                  !.socket[websocket] = "open"]
    /\ UNCHANGED <<now, cooldownVars, policyVars, escalationVars>>

\* The peer of a connection goes away: from now on send_json on it raises, and
\* receive_text in websocket_endpoint will raise WebSocketDisconnect.
socket_closed(websocket) ==
    /\ Manager.socket[websocket] = "open"
    /\ unit' = [Manager EXCEPT !.socket[websocket] = "closing"]
    /\ UNCHANGED <<now, cooldownVars, policyVars, escalationVars>>

\* websocket_endpoint, except WebSocketDisconnect: manager.disconnect(websocket).
endpoint_disconnect(websocket) ==
    /\ Manager.socket[websocket] = "closing"
    /\ unit' = [Manager EXCEPT
                  !.active_connections = disconnect(@, websocket),
                  !.socket[websocket] = "gone"]
    /\ UNCHANGED <<now, cooldownVars, policyVars, escalationVars>>

\* The loop of broadcast takes the connection at place idx, if there is one, and
\* the call is suspended in its send_json; otherwise the call returns.
next_connection(r, idx, active_connections) ==
    LET connections == iterated(r.snapshot, active_connections) IN
    IF idx <= Len(connections)
    THEN [r EXCEPT !.pc = "send", !.idx = idx, !.conn = connections[idx]]
    ELSE [r EXCEPT !.pc = "done", !.idx = 0, !.conn = "none"]

\* ConnectionManager.broadcast up to its first await: it returns at once with no
\* connection, and otherwise copies the list and starts the first send.
broadcast(b) ==
    /\ Manager.broadcast[b].pc = "idle"
    /\ unit' = [Manager EXCEPT
                  !.broadcast[b] =
                     next_connection([@ EXCEPT !.snapshot = Manager.active_connections],
                                     1, Manager.active_connections)]
    /\ UNCHANGED <<now, cooldownVars, policyVars, escalationVars>>

\* broadcast from the end of one awaited send_json: the send has gone through, or
\* it raised, the exception is logged and the connection disconnected; then the
\* loop goes on.
send_json_done(b) ==
    /\ Manager.broadcast[b].pc = "send"
    /\ LET r == Manager.broadcast[b]
           sent == Manager.socket[r.conn] = "open"
           active_connections == IF sent THEN Manager.active_connections
                                 ELSE disconnect(Manager.active_connections, r.conn)
           u == [r EXCEPT !.attempts[r.conn] = @ + 1,
                          !.received = IF sent THEN @ \cup {r.conn} ELSE @,
                          !.failed = IF sent THEN @ ELSE @ \cup {r.conn}]
       IN  unit' = [Manager EXCEPT
                      !.active_connections = active_connections,
                      !.broadcast[b] = next_connection(u, r.idx + 1, active_connections)]
    /\ UNCHANGED <<now, cooldownVars, policyVars, escalationVars>>

\* ------------------------------------------------------------------------
\* handle_alert with the steps of EmailNotifier.send (main.py lines 331-352,
\* notifier.py lines 24-56)
\* ------------------------------------------------------------------------
\* EmailNotifier.send that does not look at the level of the alert.
send_any_level(alert, credentials) ==
    IF ~credentials THEN "returned" ELSE "to_thread"

\* EmailNotifier.send up to its await: it returns at once without both EMAIL_SENDER
\* and EMAIL_PASSWORD, and for an alert whose level is not CRITICAL; otherwise it
\* builds the message and awaits asyncio.to_thread(self._send_sync, msg).
send(alert, credentials) ==
    IF ~credentials THEN "returned"
    ELSE IF alert.level # "CRITICAL" THEN "returned"
    ELSE "to_thread"

\* How _send_sync can end: the message is sent, or smtplib raises.
DeliveryOutcomes == {"sent", "failed"}

\* Whether the credentials are set: read once, in EmailNotifier.__init__.
Credentials == IF unit.key = "handle_alert" THEN {unit.credentials} ELSE BOOLEAN

\* handle_alert from the return of generate_alert_summary: the summary is attached
\* if it is not empty, email_notifier.send(alert) is called, and when send returns
\* without awaiting, manager.broadcast is called.
handle_alert_summary ==
    /\ worker_pc = "handle_alert"
    /\ handling.stage = "summary"
    /\ \E llm_summary \in StepOutcomes("summary"), credentials \in Credentials :
         LET sending == send(handling.alert, credentials) = "to_thread" IN
         /\ handling' = [handling EXCEPT
                           !.stage = IF sending THEN after_summary(llm_summary)
                                     ELSE "broadcast"]
         /\ grant_log' = IF llm_summary = "empty" THEN MarkFailed(grant_log, handling.alert)
                         ELSE grant_log
         /\ unit' = [key |-> "handle_alert", credentials |-> credentials,
                     alert |-> handling.alert, llm_summary |-> llm_summary,
                     steps |-> <<"summary", "email">>,
                     attempts |-> IF sending THEN 1 ELSE 0,
                     delivery |-> IF sending THEN "pending" ELSE "none",
                     envelope |-> NoCall, resumed |-> "none"]
    /\ UNCHANGED <<now, worker_pc, alert_state, alert_history, last_call,
                   policyVars, escalationVars>>

\* EmailNotifier.send from the end of the awaited _send_sync: success is logged, an
\* exception is caught and logged; send returns either way and handle_alert calls
\* manager.broadcast.
handle_alert_delivery ==
    /\ worker_pc = "handle_alert"
    /\ handling.stage = "email"
    /\ unit.key = "handle_alert"
    /\ \E outcome \in DeliveryOutcomes :
         unit' = [unit EXCEPT !.delivery = outcome]
    /\ handling' = [handling EXCEPT !.stage = "broadcast"]
    /\ UNCHANGED <<now, worker_pc, alert_state, alert_history, last_call, grant_log,
                   policyVars, escalationVars>>

\* handle_alert from the return of manager.broadcast({"type": "alert", "payload":
\* alert}): it logs and returns to alert_worker.
handle_alert_broadcast ==
    /\ worker_pc = "handle_alert"
    /\ handling.stage = "broadcast"
    /\ unit.key = "handle_alert"
    /\ unit' = [unit EXCEPT !.steps = Append(@, "broadcast"),
                            !.envelope = [type |-> "alert", payload |-> handling.alert],
                            !.resumed = handling.then]
    /\ handling' = [alert |-> NoAlert, stage |-> "none", then |-> handling.then]
    /\ worker_pc' = handling.then
    /\ UNCHANGED <<now, alert_state, alert_history, last_call, grant_log,
                   policyVars, escalationVars>>

\* ------------------------------------------------------------------------
\* Specifications
\* ------------------------------------------------------------------------
Init ==
    /\ now = 0
    /\ alert_state = [k \in AlertKeys |-> None]
    /\ alert_history = <<>>
    /\ worker_pc = "check_temp"
    /\ handling = [alert |-> NoAlert, stage |-> "none", then |-> "check_temp"]
    /\ last_call = NoCall
    /\ grant_log = <<>>
    /\ policy_history = <<>>
    /\ task = [c \in Callers |-> IdleTask]
    /\ last_dedup = NoCall
    /\ unit = NoCall
    /\ monitor = [pc |-> "sleep", pending |-> <<>>, k |-> 0]
    /\ notifications = <<>>

\* alert_worker on one AlertEngine.
CooldownNext ==
    \/ check_temperature_critical
    \/ check_vibration_sustained
    \/ handle_alert
    \/ worker_sleep
    \/ CooldownTick

SpecCooldown == Init /\ [][CooldownNext]_vars

\* One caller of evaluate_policies at a time, the escalation monitor, and the
\* outside caller that acknowledges and resolves alerts.
Next ==
    \/ \E data \in Snapshots : Room(data, MaxHistory) /\ evaluate_policies("t1", data)
    \/ create_alert_done("t1")
    \/ execute_action("t1")
    \/ monitor_poll
    \/ notify_manager_done
    \/ emergency_done
    \/ acknowledge
    \/ resolve
    \/ PolicyTick

Spec == Init /\ [][Next]_vars

\* The same, with the escalation monitor scheduled fairly: the event loop runs the
\* monitor's task whenever the await it is suspended in has completed.
FairSpec ==
    /\ Init
    /\ [][Next]_vars
    /\ WF_vars(monitor_poll)
    /\ WF_vars(notify_manager_done)
    /\ WF_vars(emergency_done)

\* One caller of evaluate_policies on a machine whose clock may be set back.
SkewNext ==
    \/ \E data \in Snapshots : Room(data, MaxSkewHistory) /\ evaluate_policies("t1", data)
    \/ create_alert_done("t1")
    \/ execute_action("t1")
    \/ PolicyTick
    \/ ClockStepBack

SpecSkew == Init /\ [][SkewNext]_vars

\* One call of one of the synchronous methods on a fresh engine.
UnitNext ==
    \/ call_check_conditions
    \/ call_scenarios_check_conditions
    \/ call_execute_actions
    \/ call_count_over

SpecUnits == Init /\ [][UnitNext]_vars

\* One call of _can_send_alert on an engine with any cooldown state.
GrantNext == call_can_send_alert

SpecGrants == Init /\ [][GrantNext]_vars

\* alert_worker with handle_alert taken step by step through EmailNotifier.send.
NotifyNext ==
    \/ check_temperature_critical
    \/ check_vibration_sustained
    \/ handle_alert_summary
    \/ handle_alert_delivery
    \/ handle_alert_broadcast
    \/ worker_sleep
    \/ QueryTick

SpecNotify == Init /\ [][NotifyNext]_vars

\* One ConnectionManager, its sockets connecting and going away, and one call of
\* broadcast by each of its two callers.
BroadcastNext ==
    \/ \E websocket \in Sockets : connect(websocket)
    \/ \E websocket \in Sockets : socket_closed(websocket)
    \/ \E websocket \in Sockets : endpoint_disconnect(websocket)
    \/ \E b \in Broadcasters : broadcast(b)
    \/ \E b \in Broadcasters : send_json_done(b)

SpecBroadcast == Init /\ [][BroadcastNext]_vars

\* One call of _check_conditions with an unknown operator, on a fresh engine.
OperatorNext == call_check_conditions_unknown

SpecOperators == Init /\ [][OperatorNext]_vars

\* A run of _save_alert_history calls on one AlertEngine.
SavesNext == call_save_alert_history

SpecSaves == Init /\ [][SavesNext]_vars

\* One caller evaluating the same overheated snapshot every 5 minutes, for as long
\* as the history is not above the retention bound of AlertEngine by more than one.
StreamNext ==
    \/ Room(StreamSnapshot, HISTORY_LIMIT + 1) /\ evaluate_policies("t1", StreamSnapshot)
    \/ create_alert_done("t1")
    \/ execute_action("t1")
    \/ StreamTick

SpecStream == Init /\ [][StreamNext]_vars

\* One caller evaluating, at every reading of the clock, a snapshot on which the
\* conditions of the first policy hold.
WindowNext ==
    \/ \E data \in WindowSnapshots : evaluate_policies("t1", data)
    \/ create_alert_done("t1")
    \/ execute_action("t1")
    \/ WindowTick

SpecWindow == Init /\ [][WindowNext]_vars

\* One round of alert_worker and the evaluations of one caller at one reading of the
\* clock: every alert made goes through its summarizer.
SummaryNext ==
    \/ check_temperature_critical
    \/ check_vibration_sustained
    \/ handle_alert
    \/ worker_sleep
    \/ \E data \in Snapshots : Room(data, MaxHistory) /\ evaluate_policies("t1", data)
    \/ create_alert_done("t1")
    \/ execute_action("t1")

SpecSummary == Init /\ [][SummaryNext]_vars

\* alert_worker with the outcome of every telemetry query kept.
QueryNext ==
    \/ query_temperature
    \/ query_vibration
    \/ handle_alert
    \/ worker_sleep
    \/ QueryTick

SpecQueries == Init /\ [][QueryNext]_vars

\* alert_worker with the readings and the outcome of every temperature check kept.
ReadingNext ==
    \/ reading_temperature
    \/ check_vibration_sustained
    \/ handle_alert
    \/ worker_sleep
    \/ QueryTick

SpecReadings == Init /\ [][ReadingNext]_vars

\* Two callers of evaluate_policies on one engine and one event loop, interleaved at
\* their awaits, with a clock that moves on at any time.
ConcurrentNext ==
    \/ \E c \in Callers, data \in Snapshots :
          Room(data, MaxHistory) /\ evaluate_policies(c, data)
    \/ \E c \in Callers : create_alert_done(c)
    \/ \E c \in Callers : execute_action(c)
    \/ ConcurrentTick

SpecConcurrent == Init /\ [][ConcurrentNext]_vars

\* alert_worker, a second coroutine running the checks, and a request for the alert
\* history, all on one AlertEngine and one event loop.
SharedNext ==
    \/ check_temperature_critical
    \/ check_vibration_sustained
    \/ handle_alert
    \/ worker_sleep
    \/ concurrent_check
    \/ call_get_alert_history
    \/ QueryTick

SpecShared == Init /\ [][SharedNext]_vars

\* alert_worker, the shutdown of the application, and a cancellation of the worker's
\* task.
ShutdownNext ==
    \/ check_temperature_critical
    \/ check_vibration_sustained
    \/ handle_alert
    \/ worker_sleep
    \/ QueryTick
    \/ lifespan_shutdown
    \/ cancel_alert_worker

SpecShutdown == Init /\ [][ShutdownNext]_vars

\* alert_worker up to a request for the alert history, which may arrive at any time.
RequestNext ==
    \/ unit = NoCall /\ check_temperature_critical
    \/ unit = NoCall /\ check_vibration_sustained
    \/ unit = NoCall /\ handle_alert
    \/ unit = NoCall /\ worker_sleep
    \/ unit = NoCall /\ RequestTick
    \/ call_get_alert_history

SpecRequests == Init /\ [][RequestNext]_vars

\* Evaluations of the emergency snapshot, by either caller, on an engine that starts
\* with an empty history.
EmergencyNext ==
    \/ \E c \in Callers :
          Room(EmergencySnapshot, MaxHistory) /\ evaluate_policies(c, EmergencySnapshot)
    \/ \E c \in Callers : create_alert_done(c)
    \/ \E c \in Callers : execute_action(c)
    \/ PolicyTick

SpecEmergency == Init /\ [][EmergencyNext]_vars

\* ------------------------------------------------------------------------
\* Properties of the cooldown (SpecCooldown)
\* ------------------------------------------------------------------------
SameKeyGrants == {p \in (1..Len(grant_log)) \X (1..Len(grant_log)) :
                     p[1] < p[2] /\ grant_log[p[1]].key = grant_log[p[2]].key}

\* C1: a _can_send_alert call returns true exactly when the key has no recorded
\* timestamp or strictly more than the cooldown has elapsed since it; a granted call
\* records the time of the call, a denied one leaves the timestamp; so any two grants
\* on one key are more than the cooldown apart.
C1_CooldownContract ==
    /\ last_call # NoCall =>
         /\ last_call.result <=>
              (\/ last_call.prev = None
               \/ last_call.at - last_call.prev > last_call.cooldown * 60)
         /\ alert_state[last_call.key] =
              (IF last_call.result THEN last_call.at ELSE last_call.prev)
    /\ \A p \in SameKeyGrants :
         grant_log[p[2]].at - grant_log[p[1]].at > grant_log[p[1]].cooldown * 60

\* C1 witness: two grants on the temperature key, and then a call exactly 10 minutes
\* after the second grant, which was denied.
C1_Witness ==
    /\ \E p \in SameKeyGrants : grant_log[p[1]].key = TempKey
    /\ last_call # NoCall
    /\ last_call.key = TempKey
    /\ ~last_call.result
    /\ last_call.at - last_call.prev = TEMP_COOLDOWN_MINUTES * 60

\* The last grant of a key in the log, 0 when there is none.
LastGrant(k) ==
    LET S == {i \in 1..Len(grant_log) : grant_log[i].key = k} IN
    IF S = {} THEN 0 ELSE CHOOSE i \in S : \A j \in S : j <= i

\* C8: the timestamp is recorded when permission is granted; a failure after the
\* grant (building or saving the alert, or a step of handle_alert) leaves it recorded,
\* and the next grant for the key comes more than the cooldown after the failed one.
C8_GrantSurvivesFailure ==
    /\ \A k \in AlertKeys :
         LastGrant(k) # 0 => alert_state[k] = grant_log[LastGrant(k)].at
    /\ \A p \in SameKeyGrants :
         grant_log[p[1]].failed =>
            grant_log[p[2]].at > grant_log[p[1]].at + grant_log[p[1]].cooldown * 60

\* C8 witness: a grant that was followed by a failure, and a later grant on its key.
C8_Witness ==
    \E p \in SameKeyGrants :
        /\ grant_log[p[1]].failed
        /\ alert_state[grant_log[p[1]].key] = grant_log[p[2]].at

\* ------------------------------------------------------------------------
\* Properties of deduplication and escalation (Spec, SpecSkew)
\* ------------------------------------------------------------------------
StoredAlerts == 1..Len(policy_history)

SeverityOf(i) == AlertSeverity[policy_history[i].severity]

PolicySeverityOf(i) == AlertSeverity[_get_policy(policy_history[i].policy_name).severity]

\* C2: a match whose (policy_name, severity) is that of an alert accepted less than
\* 5 minutes ago is suppressed: not appended, no action executed; a match with every
\* such alert more than 5 minutes old is accepted; so two stored alerts with the same
\* (policy_name, severity) are never less than 5 minutes apart.
C2_DedupWindow ==
    /\ last_dedup # NoCall =>
         /\ last_dedup.in_window =>
              last_dedup.result /\ ~last_dedup.appended /\ ~last_dedup.acting
         /\ last_dedup.clear => ~last_dedup.result /\ last_dedup.appended
    /\ \A i, j \in StoredAlerts :
         i < j /\ SameKey(policy_history[i], policy_history[j]) =>
            policy_history[j].timestamp - policy_history[i].timestamp >= 5 * 60

\* C2 witness: two stored alerts of one key 5 minutes and 1 second apart, and after
\* them a match of that key that was suppressed.
C2_Witness ==
    /\ \E i, j \in StoredAlerts :
         /\ i < j
         /\ SameKey(policy_history[i], policy_history[j])
         /\ policy_history[j].timestamp - policy_history[i].timestamp = 5 * 60 + 1
    /\ last_dedup # NoCall
    /\ last_dedup.result
    /\ ~last_dedup.appended

\* C3: an alert is escalated at most once: after one escalation no later poll raises
\* its severity or notifies the manager for it again.
C3_EscalatedAtMostOnce ==
    \A i \in StoredAlerts : notifications[i].escalated # "again"

\* C4: a poll that finds a pending alert whose elapsed time has reached its policy's
\* escalation_time leaves the alert escalated, no longer pending; an alert below its
\* escalation_time is not touched.
C4_OverdueBecomesEscalated ==
    \A i \in StoredAlerts :
        notifications[i].escalated # "never" =>
            /\ now - policy_history[i].timestamp >= policy_history[i].escalation_time * 60
            /\ monitor.pc = "sleep" => policy_history[i].status # "pending"

\* C5: the monitor never begins to escalate an alert whose status is acknowledged or
\* resolved.
C5_NoEscalationOnceAcknowledged ==
    \A i \in StoredAlerts : ~notifications[i].unpending

\* C6: an alert's severity is never more than one step above the severity of the
\* policy that created it.
C6_OneStepAbovePolicy ==
    \A i \in StoredAlerts : SeverityOf(i) <= PolicySeverityOf(i) + 1

C9_ScanToleratesDisorder ==
    last_dedup # NoCall => (last_dedup.in_window => last_dedup.result)

\* C10: an action that raises is caught on its own: the call of evaluate_policies
\* does not end with the exception, and neither the remaining actions of the policy
\* nor the remaining policies are left out.
C10_ActionFailureIsolated ==
    \A c \in Callers :
        /\ task[c].result # "raised"
        /\ ~task[c].skipped_actions
        /\ ~task[c].skipped_policies

\* ------------------------------------------------------------------------
\* Properties of the single calls (SpecUnits)
\* ------------------------------------------------------------------------
\* What a condition means: '>' and '<' need the metric present, not None and strictly
\* beyond the threshold; 'increasing' has no trend source and is false.
ConditionHolds(data, c) ==
    IF c.operator = "increasing" THEN FALSE
    ELSE /\ c.metric \in DOMAIN data
         /\ data[c.metric] # None
         /\ IF c.operator = ">" THEN data[c.metric] > c.value
                                ELSE data[c.metric] < c.value

HasIncreasing(conditions) ==
    \E i \in 1..Len(conditions) : conditions[i].operator = "increasing"

\* C13: a '>' (resp. '<') condition is true exactly when the metric is present, not
\* None and strictly greater (resp. less) than the threshold; equal, missing and None
\* make it false, and nothing raises.
C13_StrictComparison ==
    (/\ unit.key = "_check_conditions"
     /\ Len(unit.conditions) = 1
     /\ unit.conditions[1].operator \in {">", "<"})
    => LET c == unit.conditions[1] IN
       /\ ~unit.raised
       /\ unit.value <=>
            /\ c.metric \in DOMAIN unit.data
            /\ unit.data[c.metric] # None
            /\ IF c.operator = ">" THEN unit.data[c.metric] > c.value
                                   ELSE unit.data[c.metric] < c.value

\* C13 witness: a '>' condition whose metric reads exactly the threshold was found
\* false.
C13_Witness ==
    /\ unit.key = "_check_conditions"
    /\ Len(unit.conditions) = 1
    /\ unit.conditions[1].operator = ">"
    /\ unit.conditions[1].metric \in DOMAIN unit.data
    /\ unit.data[unit.conditions[1].metric] = unit.conditions[1].value
    /\ ~unit.value

\* C14: a list with an 'increasing' condition is found false without raising, with or
\* without a 'value' field and whether or not the metric is in the snapshot, in both
\* copies of EnhancedAlertEngine.
C14_IncreasingNeverRaises ==
    (/\ unit.key \in {"_check_conditions", "scenarios_check_conditions"}
     /\ HasIncreasing(unit.conditions))
    => ~unit.raised /\ ~unit.value

\* C15: _check_conditions is true exactly when every condition holds on its own, and
\* when it is false it returned at the first condition that does not hold; the
\* emergency policy fires on {temperature 95, vibration_magnitude 90} and not on
\* {temperature 95, vibration_magnitude 80}.
C15_AndShortCircuit ==
    unit.key = "_check_conditions" =>
        LET n == Len(unit.conditions)
            false_ones == {i \in 1..n : ~ConditionHolds(unit.data, unit.conditions[i])}
        IN  /\ unit.value <=> false_ones = {}
            /\ unit.passes = IF false_ones = {} THEN n
                             ELSE CHOOSE i \in false_ones : \A j \in false_ones : i <= j
            /\ (/\ unit.conditions = policies[2].conditions
                /\ Get(unit.data, "temperature") = 95)
               => (/\ Get(unit.data, "vibration_magnitude") = 90 => unit.value
                   /\ Get(unit.data, "vibration_magnitude") = 80 => ~unit.value)

\* C15 witness: the emergency policy fired on {temperature 95, vibration_magnitude 90}.
C15_Witness ==
    /\ unit.key = "_check_conditions"
    /\ unit.conditions = policies[2].conditions
    /\ Get(unit.data, "temperature") = 95
    /\ Get(unit.data, "vibration_magnitude") = 90
    /\ unit.value
    /\ unit.passes = 2

\* The tokens the design gives _execute_actions a collaborator for.
RecognizedTokens ==
    {"log", "notify_operator", "emergency_shutdown", "notify_manager",
     "schedule_maintenance"}

\* C11: _execute_actions invokes, in list order and once each, the collaborator of
\* every recognized token of policy.auto_actions, and nothing for any other token,
\* without raising; the emergency policy gives log, shutdown, manager notification.
C11_ActionsInListOrder ==
    unit.key = "_execute_actions" =>
        /\ ~unit.raised
        /\ unit.invoked =
             SelectSeq(unit.policy.auto_actions, LAMBDA t : t \in RecognizedTokens)

C19_HistoryRetention ==
    /\ Len(alert_history) <= 100
    /\ Len(alert_history) = IF now <= 100 THEN now ELSE 100
    /\ \A i \in 1..Len(alert_history) :
         alert_history[i].timestamp = now - Len(alert_history) + i - 1

\* C19 witness: more than 100 saves were made and the oldest entry kept is not the
\* first one saved.
C19_Witness ==
    /\ now > 100
    /\ Len(alert_history) = 100
    /\ alert_history[1].timestamp > 0

\* C20: the length of EnhancedAlertEngine.alert_history never exceeds a fixed
\* retention bound (100, the bound of AlertEngine).
C20_PolicyHistoryBounded ==
    Len(policy_history) <= 100

\* C12: a failing summarizer does not fail alert emission.  Every alert of
\* EnhancedAlertEngine carries the fallback text of _generate_ai_analysis, and one
\* that is not a duplicate is recorded and its actions are begun; in handle_alert the
\* summary step, whatever it came to, is followed by the e-mail step for the same
\* alert, and an e-mail step that does not end the handling by the broadcast step.
C12_SummaryBestEffort ==
    /\ [](/\ \A i \in StoredAlerts : policy_history[i].llm_summary = "ai_analysis_error"
          /\ last_dedup # NoCall /\ ~last_dedup.result =>
                last_dedup.appended /\ last_dedup.acting)
    /\ [][(handling.stage = "summary" /\ handling' # handling) =>
             /\ handling'.stage = "email"
             /\ handling'.alert = handling.alert]_vars
    /\ [][(handling.stage = "email" /\ handling'.stage \notin {"email", "none"}) =>
             /\ handling'.stage = "broadcast"
             /\ handling'.alert = handling.alert]_vars

\* C12 witness: an alert with the fallback summary is stored, and handle_alert has
\* reached the broadcast step of an alert whose summary step had failed.
C12_Witness ==
    /\ \E i \in StoredAlerts : policy_history[i].llm_summary = "ai_analysis_error"
    /\ handling.stage = "broadcast"
    /\ grant_log # <<>>
    /\ grant_log[Len(grant_log)].failed

\* Policy j matches the snapshot of the call that task t is running.
Matches(t, j) == _check_conditions(t.data, policies[j].conditions)

\* C16: evaluate_policies considers every policy in registration order and returns
\* an alert for each matching policy that is not a duplicate; an earlier match never
\* keeps a later matching policy from being returned.  A call moves only forward,
\* from one matching policy to the next one that matches, passing over none; an
\* alert found not to be a duplicate is appended; and the call ends only by
\* returning, with no matching policy after the one it was at.
C16_EveryMatchReturned ==
    /\ [](last_dedup # NoCall /\ ~last_dedup.result => last_dedup.appended)
    /\ [][\A c \in Callers :
            LET t == task[c]
                u == task'[c]
            IN  /\ (t.pc = "idle" /\ u.pc # "idle") =>
                      \A j \in 1..(u.i - 1) : ~Matches(u, j)
                /\ (t.pc # "idle" /\ u.pc # "idle") =>
                      /\ u.data = t.data
                      /\ u.i >= t.i
                      /\ \A j \in (t.i + 1)..(u.i - 1) : ~Matches(t, j)
                /\ (t.pc # "idle" /\ u.pc = "idle") =>
                      /\ u.result = "returned"
                      /\ \A j \in (t.i + 1)..Len(policies) : ~Matches(t, j)]_vars

\* C21: when the telemetry query of a check fails, the check returns no alert and
\* leaves alert_state and alert_history as they were, and alert_worker goes on: after
\* the temperature check to the vibration check of the same round, after the
\* vibration check to its sleep, from which the next round begins.
C21_QueryFailureSkipsCheck ==
    /\ [](unit.key = "query" /\ unit.raised =>
            /\ ~unit.returned_alert
            /\ unit.untouched
            /\ unit.then = IF unit.check = "temperature" THEN "check_vib" ELSE "sleep")
    /\ [][worker_pc = "sleep" /\ worker_pc' # worker_pc => worker_pc' = "check_temp"]_vars

\* C21 witness: the temperature query failed when the engine held a grant and a
\* saved alert, and alert_worker stands at the vibration check.
C21_Witness ==
    /\ unit.key = "query"
    /\ unit.raised
    /\ unit.check = "temperature"
    /\ worker_pc = "check_vib"
    /\ alert_state[TempKey] # None
    /\ alert_history # <<>>

\* The values held by the fields of a record.
Values(r) == {r[k] : k \in DOMAIN r}

\* C22: evaluating {equipment_id: M1, temperature: 95, vibration_magnitude: 90} on an
\* empty history yields exactly one alert, of the emergency policy, with severity
\* EMERGENCY, status pending, equipment_id M1, sensor_values holding both inputs
\* (95 and 90) and a non-empty recommended_actions list.
C22_EmergencyAlert ==
    /\ now = 0 => Len(policy_history) <= 1
    /\ policy_history # <<>> =>
         LET alert == policy_history[1] IN
         /\ alert.policy_name = "critical_state"
         /\ alert.severity = "EMERGENCY"
         /\ alert.status = "pending"
         /\ alert.equipment_id = "M1"
         /\ alert.recommended_actions # <<>>
         /\ 95 \in Values(alert.sensor_values)
         /\ 90 \in Values(alert.sensor_values)

\* C23: a call of evaluate_policies returns exactly the alerts it appended to
\* alert_history, also when an action of an accepted alert fails: a call that has
\* ended has returned, and the list it returned holds the places it appended.
C23_ReturnsWhatItRecorded ==
    \A c \in Callers :
        task[c].result # "none" =>
            /\ task[c].result = "returned"
            /\ task[c].triggered_alerts = task[c].appended

\* The places of the sequence seq that hold the alert.
PlacesOf(seq, alert) == {i \in 1..Len(seq) : seq[i] = alert}

C25_SuppressionBeforeCreation ==
    [][\A c \in Callers :
          (task[c].pc = "create" /\ task'[c] # task[c]) =>
              ~(last_dedup'.key = "is_duplicate" /\ last_dedup'.result)]_vars

\* The conditions of the list whose operator _check_conditions has a branch for.
KnownOperator(condition) == condition.operator \in {">", "<", "increasing"}

\* C26: a condition with an unknown operator is ignored and never fatal:
\* _check_conditions does not raise, and returns the AND of the remaining
\* conditions, whether or not the condition's metric is in the snapshot.
C26_UnknownOperatorIgnored ==
    unit.key = "_check_conditions" =>
        /\ ~unit.raised
        /\ unit.value = _check_conditions(unit.data,
                                          SelectSeq(unit.conditions, KnownOperator))

\* A step of alert_worker that performs one of its checks.
CheckStep ==
    /\ worker_pc \in {"check_temp", "check_vib"}
    /\ worker_pc' \notin {worker_pc, "cancelled"}

\* C27: after the lifespan shutdown has run alert_worker performs no further check; a
\* cancellation delivered to alert_worker ends its loop for good; and neither the
\* shutdown nor the cancellation alters alert_state or alert_history.
C27_LoopsExitOnShutdown ==
    /\ [][unit.key = "lifespan_shutdown" => ~CheckStep]_vars
    /\ [][worker_pc = "cancelled" =>
            /\ worker_pc' = "cancelled"
            /\ alert_state' = alert_state
            /\ alert_history' = alert_history]_vars
    /\ [][(unit' # unit \/ (worker_pc' = "cancelled" /\ worker_pc # "cancelled")) =>
            /\ alert_state' = alert_state
            /\ alert_history' = alert_history]_vars

\* The places of alert_history that hold an alert of this key made at this time.
SavedFor(k, t) ==
    {j \in 1..Len(alert_history) :
        alert_history[j].key = k /\ alert_history[j].timestamp = t}

\* C28: the accesses to the cooldown state are effectively synchronized.  With checks
\* of alert_worker and of a second coroutine and history requests interleaved, two
\* grants on one key are more than the key's cooldown apart, every alert in
\* alert_history is there once and stems from a grant, every grant whose alert was
\* built and saved has its alert there, and the alert being handled is there once.
C28_EffectivelySynchronized ==
    /\ \A p \in SameKeyGrants :
         grant_log[p[2]].at - grant_log[p[1]].at
            > timedelta_minutes(grant_log[p[1]].cooldown)
    /\ \A j \in 1..Len(alert_history) :
         /\ Cardinality(SavedFor(alert_history[j].key, alert_history[j].timestamp)) = 1
         /\ \E i \in 1..Len(grant_log) :
               /\ grant_log[i].key = alert_history[j].key
               /\ grant_log[i].at = alert_history[j].timestamp
    /\ \A i \in 1..Len(grant_log) :
         ~grant_log[i].failed =>
             Cardinality(SavedFor(grant_log[i].key, grant_log[i].at)) = 1
    /\ handling.alert # NoAlert =>
         Cardinality(SavedFor(handling.alert.key, handling.alert.timestamp)) = 1

\* C28 witness: both coroutines were granted the same key, in different windows, a
\* check in between was denied, and a history request was served meanwhile.
C28_Witness ==
    /\ \E p \in SameKeyGrants : TRUE
    /\ last_call # NoCall /\ ~last_call.result
    /\ unit.key = "get_alert_history"
    /\ Len(alert_history) >= 2
    /\ worker_pc = "handle_alert"

\* C29: under any interleaving of concurrent evaluate_policies calls, two matches
\* with the same (policy_name, severity) are never both accepted within the 5-minute
\* window: two stored alerts of one key are at least the window apart, and a check
\* that finds a stored alert of its key inside the window appends nothing.
C29_AtomicCheckThenAppend ==
    /\ \A i, j \in StoredAlerts :
         (i < j /\ SameKey(policy_history[i], policy_history[j])) =>
             policy_history[j].timestamp - policy_history[i].timestamp
                >= duplicate_check_window
    /\ (last_dedup # NoCall /\ last_dedup.in_window) => ~last_dedup.appended

\* C29 witness: both callers are inside evaluate_policies for the same policy, one
\* has had its alert accepted and the other's was found a duplicate.
C29_Witness ==
    /\ task["t1"].pc = "actions"
    /\ task["t2"].pc # "idle"
    /\ task["t2"].i > task["t1"].i
    /\ Matches(task["t2"], task["t1"].i)
    /\ last_dedup # NoCall
    /\ last_dedup.result
    /\ Len(policy_history) = 1

\* C30: alert_history of EnhancedAlertEngine is ordered by non-decreasing timestamp
\* in every reachable state, also with interleaved calls, when the clock does not go
\* back; and the reversed scan of _is_duplicate, which stops at the first alert
\* outside the window, misses no stored alert of the key inside the window.
C30_HistoryInTimeOrder ==
    /\ \A i, j \in StoredAlerts :
         i < j => policy_history[i].timestamp <= policy_history[j].timestamp
    /\ (last_dedup # NoCall /\ last_dedup.in_window) => last_dedup.result

\* C30 witness: alerts of both callers are stored, made at different times, the
\* later one by a call that was suspended in _create_alert while the clock moved.
C30_Witness ==
    /\ Len(policy_history) >= 2
    /\ policy_history[1].timestamp < policy_history[Len(policy_history)].timestamp
    /\ \E c \in Callers : task[c].pc = "actions" /\ task[c].appended # <<>>
    /\ \E c \in Callers : task[c].pc = "create" /\ task[c].entered < now

\* C32: a notifier failure while escalating one alert does not stop the escalation
\* monitor: the coroutine monitor_escalations never ends with the exception of
\* _notify_manager or _send_emergency_notifications, it goes on with the remaining
\* pending alerts of the poll and keeps polling.
C32_MonitorSurvivesNotifierFailure ==
    /\ monitor.pc # "dead"
    /\ monitor.pc \in {"sleep", "notify_manager", "emergency"}

\* The stored alert at place i is pending and its elapsed time has reached its
\* policy's escalation_time.
Overdue(i) ==
    /\ i \in StoredAlerts
    /\ policy_history[i].status = "pending"
    /\ _get_elapsed_time(policy_history[i])
          >= _get_policy(policy_history[i].policy_name).escalation_time * 60

\* The stored alert at place i has been escalated, or is no longer pending.
Settled(i) ==
    /\ i \in StoredAlerts
    /\ \/ notifications[i].escalated # "never"
       \/ policy_history[i].status # "pending"

\* C31: with the escalation monitor scheduled fairly, every alert that stays pending
\* past its policy's escalation_time is eventually escalated: its severity raised
\* and the manager notified.
C31_OverdueEventuallyEscalated ==
    \A i \in 1..(MaxHistory + 1) : Overdue(i) ~> Settled(i)

\* C33: _escalate_alert notifies the manager, then raises the severity, then sends
\* the emergency notification.  The severity of a stored alert changes only in the
\* step from the return of _notify_manager to the await of
\* _send_emergency_notifications, for the alert being escalated and by one step of
\* _increase_severity, so the manager notification was made with the severity before
\* and the emergency notification is made with the raised one; and when
\* _notify_manager fails the stored alerts are left as they were.
C33_EscalationOrder ==
    /\ [][\A i \in StoredAlerts :
            policy_history'[i].severity # policy_history[i].severity =>
                /\ monitor.pc = "notify_manager"
                /\ monitor'.pc = "emergency"
                /\ i = Escalating
                /\ policy_history'[i].severity
                      = _increase_severity(policy_history[i].severity)]_vars
    /\ [][(monitor.pc = "notify_manager" /\ monitor' # monitor) =>
            /\ monitor'.pc \in {"emergency", "dead"}
            /\ monitor'.k = monitor.k
            /\ monitor'.pc = "dead" => policy_history' = policy_history]_vars
    /\ [][(monitor'.pc = "emergency" /\ monitor' # monitor) =>
            monitor.pc = "notify_manager"]_vars

\* C33 witness: the manager was notified for an alert, its severity has been raised
\* one step, and the emergency notification is being awaited.
C33_Witness ==
    /\ monitor.pc = "emergency"
    /\ notifications[Escalating].escalated = "once"
    /\ SeverityOf(Escalating) = PolicySeverityOf(Escalating) + 1

\* C34: _can_send_alert(key, ...) changes at most alert_state[key].  A denied call
\* leaves alert_state as it was, a granted call records the time of the call for the
\* key and leaves every other key as it was, and the timestamp of a key never
\* decreases: the cooldowns of the two keys do not affect each other.
C34_CooldownFrame ==
    unit.key = "_can_send_alert" =>
        /\ \A k \in AlertKeys \ {unit.alert_key} : unit.after[k] = unit.before[k]
        /\ ~unit.ok => unit.after = unit.before
        /\ unit.ok => unit.after[unit.alert_key] = unit.at
        /\ unit.before[unit.alert_key] # None =>
              unit.after[unit.alert_key] >= unit.before[unit.alert_key]
        /\ unit.ok <=>
              (\/ unit.before[unit.alert_key] = None
               \/ unit.at - unit.before[unit.alert_key]
                     > timedelta_minutes(CooldownOf(unit.alert_key)))

\* C34 witness: a call for the temperature key denied inside its cooldown, at a time
\* when the cooldown of the vibration key, granted earlier, has run out.
C34_Witness ==
    /\ unit.key = "_can_send_alert"
    /\ unit.alert_key = TempKey
    /\ ~unit.ok
    /\ unit.at > unit.before[TempKey]
    /\ unit.before[VibKey] # None
    /\ unit.at - unit.before[VibKey] > timedelta_minutes(VIB_COOLDOWN_MINUTES)

\* The longest time between two evaluations.
LongestDelay == CHOOSE d \in PolicyDelays : \A e \in PolicyDelays : e <= d

\* Stored alerts i < j of one key with no alert of that key between them.
Successive(i, j) ==
    /\ i < j
    /\ SameKey(policy_history[i], policy_history[j])
    /\ \A k \in StoredAlerts : i < k /\ k < j => ~SameKey(policy_history[i], policy_history[k])

\* C35: the dedup window is anchored at accepted alerts only.  A match is suppressed
\* exactly when a stored alert of its (policy_name, severity) is less than 5 minutes
\* old, and a suppressed match is not stored; so with the conditions of a policy
\* holding at every evaluation, the next alert of the policy is stored at the first
\* evaluation made 5 minutes or more after the last stored one, however many
\* matches were suppressed in between.
C35_WindowAnchoredAtAccepted ==
    /\ last_dedup # NoCall =>
         /\ last_dedup.result <=> last_dedup.in_window
         /\ last_dedup.appended <=> ~last_dedup.result
    /\ \A i, j \in StoredAlerts :
         Successive(i, j) =>
            /\ policy_history[j].timestamp - policy_history[i].timestamp >= 5 * 60
            /\ policy_history[i].policy_name = policies[1].name =>
                 policy_history[j].timestamp - policy_history[i].timestamp
                    < 5 * 60 + LongestDelay
    /\ \A c \in Callers :
         task[c].pc = "idle" /\ task[c].result # "none" =>
            \E i \in StoredAlerts :
               /\ policy_history[i].policy_name = policies[1].name
               /\ now - policy_history[i].timestamp < 5 * 60

\* C35 witness: an alert stored exactly 5 minutes after the one before it, and
\* another stored 299 seconds after a suppressed match of its key: the evaluation
\* made 299 seconds after an alert was suppressed and the next one, 598 seconds
\* after that alert, stored.
C35_Witness ==
    \E i, j, k \in StoredAlerts :
       /\ Successive(i, j)
       /\ Successive(j, k)
       /\ policy_history[i].policy_name = policies[1].name
       /\ policy_history[j].timestamp - policy_history[i].timestamp = 5 * 60
       /\ policy_history[k].timestamp - policy_history[j].timestamp = 2 * 299

\* C36: check_temperature_critical returns at most one alert, and returns one only
\* for a reading strictly greater than the threshold when the 10-minute cooldown of
\* the temperature key grants; readings less than or equal to the threshold leave
\* alert_state and alert_history as they were; the alert returned is the last entry
\* of alert_history.
C36_TemperatureCheck ==
    unit.key = "check_temperature_critical" =>
        /\ unit.added \in {0, 1}
        /\ unit.ret # NoAlert <=> unit.added = 1
        /\ unit.ret # NoAlert =>
              /\ unit.ret.value \in unit.values
              /\ unit.ret.value > TEMP_CRITICAL_THRESHOLD
              /\ unit.ret.key = TempKey
              /\ unit.ret.level = "CRITICAL"
              /\ \/ unit.before = None
                 \/ unit.at - unit.before > timedelta_minutes(10)
              /\ unit.saved
        /\ (\A v \in unit.values : v <= TEMP_CRITICAL_THRESHOLD) =>
              unit.ret = NoAlert /\ unit.untouched

\* C36 witness: a call that found a reading at the threshold and one above it after
\* the cooldown of an earlier alert had run out, and returned the alert of the
\* reading above.
C36_Witness ==
    /\ unit.key = "check_temperature_critical"
    /\ TEMP_CRITICAL_THRESHOLD \in unit.values
    /\ unit.before # None
    /\ unit.ret # NoAlert
    /\ unit.ret.value = TEMP_CRITICAL_THRESHOLD + 1

\* C37: a call of broadcast tries to send the message exactly once to every
\* connection that was active when it started and to no other; a connection whose
\* send fails is removed from active_connections and the connections after it still
\* get the message; connections that connect or go away while the call is suspended
\* cause no skipped and no repeated send; disconnect removes the connection it is
\* given and no other, and does nothing when that connection is not in the list.
C37_BroadcastOnceToEach ==
    /\ \A b \in Broadcasters :
         LET r == Manager.broadcast[b] IN
         /\ \A ws \in Sockets :
              /\ r.attempts[ws] <= 1
              /\ r.attempts[ws] = 1 => ws \in Range(r.snapshot)
              /\ r.attempts[ws] = 1 <=> ws \in r.received \cup r.failed
         /\ r.pc = "done" => \A ws \in Range(r.snapshot) : r.attempts[ws] = 1
         /\ r.received \cap r.failed = {}
         /\ r.failed \cap Range(Manager.active_connections) = {}
         /\ r.pc = "done" =>
              \A ws \in Range(r.snapshot) : Manager.socket[ws] = "open" => ws \in r.received
    /\ \A ws \in Sockets :
         /\ Manager.socket[ws] = "open" => ws \in Range(Manager.active_connections)
         /\ Manager.socket[ws] \in {"new", "gone"} =>
              ws \notin Range(Manager.active_connections)
    /\ \A i, j \in DOMAIN Manager.active_connections :
         Manager.active_connections[i] = Manager.active_connections[j] => i = j

\* C37 witness: a finished broadcast that started with two connections, whose first
\* send failed and second went through, while a third connection was added during
\* the call and the endpoint of the failed one then called disconnect for the
\* connection already removed.
C37_Witness ==
    \E b \in Broadcasters :
       LET r == Manager.broadcast[b] IN
       /\ r.pc = "done"
       /\ Len(r.snapshot) = 2
       /\ r.snapshot[1] \in r.failed
       /\ r.snapshot[2] \in r.received
       /\ Manager.socket[r.snapshot[1]] = "gone"
       /\ \E ws \in Range(Manager.active_connections) : ws \notin Range(r.snapshot)

\* C38: handle_alert takes an alert through summary, e-mail and broadcast in that
\* order; it makes at most one delivery attempt for an alert, and none without
\* credentials or for an alert whose level is not CRITICAL; a failed delivery is
\* not tried again and is followed by the broadcast of {type: "alert", payload:
\* alert}; and alert_worker goes on after handle_alert.
C38_HandleAlertOrder ==
    unit.key = "handle_alert" =>
        /\ unit.steps \in {<<"summary", "email">>, <<"summary", "email", "broadcast">>}
        /\ unit.attempts <= 1
        /\ unit.attempts = 1 <=> unit.credentials /\ unit.alert.level = "CRITICAL"
        /\ unit.alert.key = VibKey => unit.alert.level = "WARNING" /\ unit.attempts = 0
        /\ unit.delivery # "none" <=> unit.attempts = 1
        /\ handling.alert = NoAlert =>
              /\ unit.steps = <<"summary", "email", "broadcast">>
              /\ unit.delivery # "pending"
              /\ unit.envelope = [type |-> "alert", payload |-> unit.alert]
              /\ unit.resumed \in {"check_vib", "sleep"}
        /\ handling.alert # NoAlert /\ handling.stage = "broadcast" =>
              /\ handling.alert = unit.alert
              /\ unit.delivery # "pending"
        /\ handling.alert # NoAlert /\ handling.stage = "email" =>
              /\ handling.alert = unit.alert
              /\ unit.delivery = "pending"

\* C38 witness: an alert whose one delivery attempt failed and whose envelope was
\* broadcast afterwards, with alert_worker at its next step.
C38_Witness ==
    /\ unit.key = "handle_alert"
    /\ unit.attempts = 1
    /\ unit.delivery = "failed"
    /\ unit.steps = <<"summary", "email", "broadcast">>
    /\ unit.envelope = [type |-> "alert", payload |-> unit.alert]
    /\ worker_pc = "check_vib"

====
